---- MODULE Spec2Model ----
(***************************************************************************)
(* Funding-rate arbitrage bot: the market-data validity gate of            *)
(* core/data_manager.py and the evaluation / execution engine of           *)
(* core/arbitrage_engine.py.                                               *)
(*                                                                         *)
(* Units.  Funding rates are integers in units of 1e-6.  Prices are        *)
(* integers.  Percentages (price difference, slippage) are integers in     *)
(* units of 0.01 %.  Time is an integer count of 100-second steps.         *)
(* Optional values (Python None) are sequences: <<>> is None, <<x>> is x.  *)
(* An absent side (Python None) is the string NoSide; the string "NONE"    *)
(* is the side name check_direction_consistency_multi gives the middle     *)
(* venue.                                                                  *)
(***************************************************************************)
EXTENDS Integers, Sequences, FiniteSets, TLC

VARIABLES
    config,               \* strategy configuration (read only after Init)
    now,                  \* wall clock
    available,            \* DataManager.*_available flags
    latest_data,          \* DataManager.latest_data
    valid_result,         \* last value returned by is_data_valid
    venue_qty,            \* signed net position per venue and symbol (the venues' truth)
    symbolTagged,         \* whether a venue's position records carry a "symbol" field
    funding_diff_signs,   \* ArbitrageEngine.funding_diff_signs
    signs_file,           \* content of data/funding_diff_signs.json
    position_directions,  \* ArbitrageEngine.position_directions
    position_open_times,  \* ArbitrageEngine.position_open_times
    entry_prices,         \* ArbitrageEngine.entry_prices
    entry_funding_rates,  \* ArbitrageEngine.entry_funding_rates
    preferred_sides,      \* ArbitrageEngine.preferred_sides
    snapshots,            \* files in data/positions
    pc,                   \* position of the main loop
    sym_idx,              \* index of the next symbol / candidate to process
    cycle_positions,      \* the positions fetched at the start of the cycle
    open_candidates,      \* list built by the scan
    close_candidates,     \* list built by the scan
    last_eval,            \* what the last _collect_arbitrage_opportunity did
    last_call,            \* what the last _open_position / _close_position did
    call_args,            \* arguments of a function exercised on its own
    call_result,          \* what that function returned
    legs                  \* progress of one handler call over its leg orders

vars == <<config, now, available, latest_data, valid_result, venue_qty,
          symbolTagged, funding_diff_signs, signs_file, position_directions,
          position_open_times, entry_prices, entry_funding_rates,
          preferred_sides, snapshots, pc, sym_idx, cycle_positions,
          open_candidates, close_candidates, last_eval, last_call,
          call_args, call_result, legs>>

---------------------------------------------------------------------------
(* Optional values and small helpers                                       *)

None == <<>>
Some(x) == <<x>>
IsNone(o) == o = <<>>
Val(o) == o[1]

NoSide == "None"

Abs(x) == IF x < 0 THEN -x ELSE x

Put(m, k, v) == [x \in DOMAIN m \cup {k} |-> IF x = k THEN v ELSE m[x]]
Del(m, k) == [x \in DOMAIN m \ {k} |-> m[x]]
EmptyMap == [x \in {} |-> 0]

Venues == {"backpack", "hyperliquid", "coinex"}

---------------------------------------------------------------------------
(* Bounds                                                                  *)

MaxTime == 3
\* largest magnitude of a funding rate given to a rule exercised alone
MaxRate == 4

---------------------------------------------------------------------------
(* DataManager                                                             *)

max_age_seconds == 3

EmptySlot ==
    [price |-> None, funding_rate |-> None,
     price_timestamp |-> None, funding_timestamp |-> None]

\* variant: data exactly max_age old is rejected
VenueCheckStrict(d, t, max_age) ==
    IF \/ IsNone(d.price)
       \/ IsNone(d.funding_rate)
       \/ IsNone(d.price_timestamp)
       \/ IsNone(d.funding_timestamp)
    THEN FALSE
    ELSE LET price_age == t - Val(d.price_timestamp)
             funding_age == t - Val(d.funding_timestamp)
         IN  ~(price_age >= max_age \/ funding_age >= max_age)

\* one venue's part of is_data_valid: every field present and both ages
\* at most max_age
VenueCheck(d, t, max_age) ==
    IF \/ IsNone(d.price)
       \/ IsNone(d.funding_rate)
       \/ IsNone(d.price_timestamp)
       \/ IsNone(d.funding_timestamp)
    THEN FALSE
    ELSE LET price_age == t - Val(d.price_timestamp)
             funding_age == t - Val(d.funding_timestamp)
         IN  ~(price_age > max_age \/ funding_age > max_age)

BoolCount(S) == Cardinality({v \in Venues : S[v]})

is_data_valid(store, avail, symbol, t, max_age) ==
    IF symbol \notin DOMAIN store THEN FALSE
    ELSE
    LET data == store[symbol]
        check == [v \in Venues |->
                    IF avail[v] THEN VenueCheck(data[v], t, max_age) ELSE TRUE]
        available_exchanges_count == BoolCount(avail)
        valid_exchanges_count ==
            BoolCount([v \in Venues |-> IF avail[v] THEN check[v] ELSE FALSE])
    IN  IF available_exchanges_count = 0 THEN FALSE
        ELSE IF available_exchanges_count = 1
             THEN IF avail["backpack"] THEN check["backpack"]
                  ELSE IF avail["hyperliquid"] THEN check["hyperliquid"]
                  ELSE check["coinex"]
             ELSE valid_exchanges_count >= 2

---------------------------------------------------------------------------
(* Symbols and the venues' position reports                                *)

SymbolList == <<"BTC", "ETH">>
Symbols == {SymbolList[i] : i \in 1..Len(SymbolList)}

\* what an adapter's get_positions builds from the venue's net quantities:
\* zero quantities are skipped, the sign gives the side
PositionsOf(qty) ==
    [s \in {x \in Symbols : qty[x] # 0} |->
        [side |-> IF qty[s] > 0 THEN "BUY" ELSE "SELL", size |-> Abs(qty[s])]]

\* get_positions answers {} when the request fails
GetPositions(qty, ok) == IF ok THEN PositionsOf(qty) ELSE EmptyMap

\* "for pos in positions.values(): if pos.get("symbol") == venue_symbol":
\* finds the record only when the records carry the field
FindBySymbol(positions, tagged, s) ==
    IF tagged /\ s \in DOMAIN positions THEN Some(positions[s]) ELSE None

---------------------------------------------------------------------------
(* utils/helpers.py                                                        *)

calculate_funding_diff(bp_funding, hl_funding) ==
    LET adjusted_hl_funding == hl_funding * 8
        diff == bp_funding - adjusted_hl_funding
    IN  [diff |-> Abs(diff),
         sign |-> IF diff > 0 THEN 1 ELSE IF diff < 0 THEN -1 ELSE 0]

---------------------------------------------------------------------------
(* Percentages: (a - b) / b * 100 kept as the fraction num / den, b > 0    *)

PctDiff(a, b) == [num |-> (a - b) * 100, den |-> b]
\* |p| >= thr and |p| <= thr, thr in units of 0.01 %
PctAbsGE(p, thr) == Abs(p.num) * 100 >= thr * p.den
PctAbsLE(p, thr) == Abs(p.num) * 100 <= thr * p.den

---------------------------------------------------------------------------
(* Direction rules                                                         *)

\* check_direction_consistency: price direction against the 2-venue
\* sign-based funding direction
check_direction_consistency(bp_price, hl_price, bp_funding, hl_funding) ==
    LET price_diff == bp_price - hl_price
        price_bp_side == IF price_diff > 0 THEN "SELL" ELSE "BUY"
        price_hl_side == IF price_diff > 0 THEN "BUY" ELSE "SELL"
        funding_bp_side ==
            IF bp_funding < 0 /\ hl_funding < 0
            THEN IF Abs(bp_funding) > Abs(hl_funding) THEN "BUY" ELSE "SELL"
            ELSE IF bp_funding > 0 /\ hl_funding > 0
            THEN IF bp_funding > hl_funding THEN "SELL" ELSE "BUY"
            ELSE IF bp_funding > 0 THEN "SELL" ELSE "BUY"
        funding_hl_side ==
            IF bp_funding < 0 /\ hl_funding < 0
            THEN IF Abs(bp_funding) > Abs(hl_funding) THEN "SELL" ELSE "BUY"
            ELSE IF bp_funding > 0 /\ hl_funding > 0
            THEN IF bp_funding > hl_funding THEN "BUY" ELSE "SELL"
            ELSE IF hl_funding > 0 THEN "SELL" ELSE "BUY"
    IN  [is_consistent |-> price_bp_side = funding_bp_side
                           /\ price_hl_side = funding_hl_side,
         bp_side |-> funding_bp_side,
         hl_side |-> funding_hl_side]

\* position of a venue in the list the ranking sorts
VenueOrder == <<"backpack", "hyperliquid", "coinex">>
VenueIndex(v) == CHOOSE i \in 1..3 : VenueOrder[i] = v

\* variant: the lowest and the highest venue are looked up by their rate,
\* the first venue holding the rate wins
check_direction_consistency_multi_by_rate(bp_funding, hl_funding, cx_funding) ==
    LET rate == [backpack |-> bp_funding, hyperliquid |-> hl_funding,
                 coinex |-> cx_funding]
        First(S) == CHOOSE v \in S : \A w \in S : VenueIndex(v) <= VenueIndex(w)
        lowest == First({v \in Venues : \A w \in Venues : rate[v] <= rate[w]})
        highest == First({v \in Venues : \A w \in Venues : rate[v] >= rate[w]})
        side(v) == IF v = lowest THEN "BUY"
                   ELSE IF v = highest THEN "SELL" ELSE "NONE"
        bp == side("backpack")
        hl == side("hyperliquid")
        cx == side("coinex")
        has_opposite_directions ==
            \/ bp # "NONE" /\ hl # "NONE" /\ bp # hl
            \/ bp # "NONE" /\ cx # "NONE" /\ bp # cx
            \/ hl # "NONE" /\ cx # "NONE" /\ hl # cx
    IN  [is_consistent |-> has_opposite_directions,
         bp_side |-> bp, hl_side |-> hl, cx_side |-> cx]

\* check_direction_consistency_multi: stable sort by rate, first is the
\* lowest, last is the highest, the other one is "NONE"
check_direction_consistency_multi(bp_funding, hl_funding, cx_funding) ==
    LET rate == [backpack |-> bp_funding, hyperliquid |-> hl_funding,
                 coinex |-> cx_funding]
        Before(a, b) == \/ rate[a] < rate[b]
                        \/ rate[a] = rate[b] /\ VenueIndex(a) < VenueIndex(b)
        lowest == CHOOSE v \in Venues : \A w \in Venues \ {v} : Before(v, w)
        highest == CHOOSE v \in Venues : \A w \in Venues \ {v} : Before(w, v)
        side(v) == IF v = lowest THEN "BUY"
                   ELSE IF v = highest THEN "SELL" ELSE "NONE"
        bp == side("backpack")
        hl == side("hyperliquid")
        cx == side("coinex")
        has_opposite_directions ==
            \/ bp # "NONE" /\ hl # "NONE" /\ bp # hl
            \/ bp # "NONE" /\ cx # "NONE" /\ bp # cx
            \/ hl # "NONE" /\ cx # "NONE" /\ hl # cx
    IN  [is_consistent |-> has_opposite_directions,
         bp_side |-> bp, hl_side |-> hl, cx_side |-> cx]

---------------------------------------------------------------------------
(* Opportunity evaluator                                                   *)

\* variant: every policy value is treated as "any"
ConditionPolicyAlwaysAny(condition_type, price_condition_met, funding_condition_met) ==
    price_condition_met \/ funding_condition_met

\* "if condition_type == "any": ... elif "all" ... elif "funding_only" ...
\* elif "price_only"": should_open stays False for any other value
ConditionPolicy(condition_type, price_condition_met, funding_condition_met) ==
    IF condition_type = "any" THEN price_condition_met \/ funding_condition_met
    ELSE IF condition_type = "all" THEN price_condition_met /\ funding_condition_met
    ELSE IF condition_type = "funding_only" THEN funding_condition_met
    ELSE IF condition_type = "price_only" THEN price_condition_met
    ELSE FALSE

\* variant: only Backpack's report is consulted
HasPositionBackpackOnly(pos, s) == s \in DOMAIN pos["backpack"]

\* has_position of the scan: the symbol is a key of any venue's report
HasPosition(pos, s) ==
    \/ s \in DOMAIN pos["backpack"]
    \/ s \in DOMAIN pos["hyperliquid"]
    \/ s \in DOMAIN pos["coinex"]

\* distinct symbols with a position in the cycle's reports
PositionSymbols(pos) ==
    DOMAIN pos["backpack"] \cup DOMAIN pos["hyperliquid"] \cup DOMAIN pos["coinex"]

\* variant: the cap is reached only when it is exceeded
CapReachedStrict(current_positions_count, max_positions_count) ==
    current_positions_count > max_positions_count

\* "if current_positions_count >= max_positions_count: return False, ..."
CapReached(current_positions_count, max_positions_count) ==
    current_positions_count >= max_positions_count

\* market_data.get(symbol, {}).get("total_slippage", 0.5)
StoredSlippage(data) ==
    IF IsNone(data.total_slippage) THEN 50 ELSE Val(data.total_slippage)

\* _check_open_conditions_without_execution.  cx_price and cx_funding are
\* optional.  The result says whether the call raised, whether it wants to
\* open, the size, and the preferred_sides map it leaves behind.
CheckOpenConditions(cfg, s, data, pos, pref, bp_price, hl_price, bp_funding, adjusted_hl_funding, price_diff_percent, funding_diff, cx_price, cx_funding) ==
    LET oc == cfg.open_conditions
        No(size) == [raised |-> FALSE, should_open |-> FALSE,
                     available_size |-> size, preferred |-> pref,
                     direction_checked |-> FALSE]
        total_slippage == StoredSlippage(data)
        slippage_condition_met ==
            oc.ignore_high_slippage \/ total_slippage <= oc.max_slippage_percent
        current_positions_count == Cardinality(PositionSymbols(pos))
        max_position_size ==
            IF s \in DOMAIN cfg.trading_pairs
            THEN cfg.trading_pairs[s].max_position_size ELSE 0
        current_size == 0
        available_size == max_position_size - current_size
        price_condition_met ==
            /\ PctAbsGE(price_diff_percent, oc.min_price_diff_percent)
            /\ PctAbsLE(price_diff_percent, oc.max_price_diff_percent)
        funding_condition_met == Abs(funding_diff) >= oc.min_funding_diff
        check_it == /\ oc.check_direction_consistency
                    /\ price_condition_met /\ funding_condition_met
        three == ~IsNone(cx_price) /\ ~IsNone(cx_funding)
        \* the part after the direction check; multi and two are the
        \* results of the three-venue and the two-venue rule
        Decide(multi, two) ==
            LET direction_consistent ==
                    IF ~check_it THEN TRUE
                    ELSE IF three THEN multi.is_consistent ELSE two.is_consistent
                \* self.preferred_sides[symbol] = {...}; then
                \* "if preferred_cx_side:" reads a local that only the
                \* three-venue branch assigns
                stored ==
                    IF check_it /\ direction_consistent
                    THEN IF three
                         THEN Put(pref, s, [bp_side |-> multi.bp_side,
                                            hl_side |-> multi.hl_side,
                                            cx_side |-> multi.cx_side])
                         ELSE Put(pref, s, [bp_side |-> two.bp_side,
                                            hl_side |-> two.hl_side,
                                            cx_side |-> NoSide])
                    ELSE pref
                unbound_local == check_it /\ direction_consistent /\ ~three
                should_open ==
                    ConditionPolicy(oc.condition_type, price_condition_met,
                                    funding_condition_met) /\ direction_consistent
            IN  IF unbound_local
                THEN [raised |-> TRUE, should_open |-> FALSE,
                      available_size |-> available_size, preferred |-> stored,
                      direction_checked |-> TRUE]
                ELSE [raised |-> FALSE, should_open |-> should_open,
                      available_size |-> available_size, preferred |-> stored,
                      direction_checked |-> check_it]
    IN  IF HasPosition(pos, s) THEN No(0)
        ELSE IF ~slippage_condition_met THEN No(0)
        ELSE IF CapReached(current_positions_count, cfg.max_positions_count)
        THEN No(0)
        ELSE IF s \notin DOMAIN cfg.trading_pairs THEN No(0)
        ELSE IF current_size >= max_position_size THEN No(0)
        ELSE Decide(check_direction_consistency_multi(
                        bp_funding, adjusted_hl_funding, Val(cx_funding)),
                    check_direction_consistency(
                        bp_price, hl_price, bp_funding, adjusted_hl_funding))

\* variant: no minimum holding time
TooEarlyNever(open_time, t, min_position_time) == FALSE

\* variant: a position without a recorded open time counts as just opened
TooEarlyUnrecorded(open_time, t, min_position_time) ==
    open_time <= 0 \/ t - open_time < min_position_time

\* "if open_time > 0 and position_duration < min_position_time"
TooEarly(open_time, t, min_position_time) ==
    open_time > 0 /\ t - open_time < min_position_time

Reversed(entry_side, current_side) ==
    \/ entry_side = "BUY" /\ current_side = "SELL"
    \/ entry_side = "SELL" /\ current_side = "BUY"

\* _check_close_conditions_without_execution as the scan calls it: the
\* two held legs arrive in the bp_/hl_ parameters, the cx_ parameters keep
\* their defaults.  hl_price, adjusted_hl_funding, price_diff_percent and
\* funding_diff are optional (None when CoinEx has no data).
CheckCloseConditions(cfg, s, data, open_times, t, bp_position, hl_position, bp_price, hl_price, bp_funding, adjusted_hl_funding, price_diff_percent, funding_diff) ==
    LET cc == cfg.close_conditions
        Result(kind, close) ==
            [kind |-> kind, should_close |-> close,
             position |-> IF kind = "evaluated"
                          THEN Some([bp_side |-> bp_position.side,
                                     hl_side |-> hl_position.side,
                                     bp_size |-> bp_position.size,
                                     hl_size |-> hl_position.size])
                          ELSE None]
        open_time == IF s \in DOMAIN open_times THEN open_times[s] ELSE 0
        DirectionReversed(current) ==
            /\ Reversed(bp_position.side, current.bp_side)
            /\ Reversed(hl_position.side, current.hl_side)
            /\ current.is_consistent
        direction_reversed ==
            DirectionReversed(check_direction_consistency(
                bp_price, Val(hl_price), bp_funding, Val(adjusted_hl_funding)))
        total_slippage == StoredSlippage(data)
        slippage_condition_met ==
            cc.ignore_close_slippage
                \/ total_slippage <= cc.max_close_slippage_percent
        funding_condition_met == Abs(Val(funding_diff)) >= cc.min_funding_diff
        price_condition_met ==
            PctAbsGE(Val(price_diff_percent), cc.min_profit_percent)
    IN  IF TooEarly(open_time, t, cc.min_position_time)
        THEN Result("too_early", FALSE)
        ELSE IF IsNone(hl_price) \/ IsNone(adjusted_hl_funding)
        THEN Result("raised", FALSE)
        ELSE IF ~direction_reversed THEN Result("not_reversed", FALSE)
        ELSE IF ~slippage_condition_met THEN Result("slippage", FALSE)
        ELSE Result("evaluated",
                    ConditionPolicy(cc.condition_type, price_condition_met,
                                    funding_condition_met))

\* The part of _collect_arbitrage_opportunity after the data has been
\* read: what it decides for symbol s from the store, the cycle's position
\* reports and the stored preferred sides.
EvalSymbol(cfg, avail, store, pos, pref, open_times, t, s) ==
    LET data == store[s]
        bp == data["backpack"]
        hl == data["hyperliquid"]
        cx == data["coinex"]
        Out(kind, oc, cl, p) ==
            [kind |-> kind, open |-> oc, close |-> cl, preferred |-> p,
             close_checked |-> FALSE, direction_checked |-> FALSE]
        Checked(kind, cl, p) ==
            [kind |-> kind, open |-> <<>>, close |-> cl, preferred |-> p,
             close_checked |-> TRUE, direction_checked |-> FALSE]
        bp_price == Val(bp.price)
        hl_price == Val(hl.price)
        bp_funding == Val(bp.funding_rate)
        hl_funding == Val(hl.funding_rate)
        adjusted_hl_funding == hl_funding * 8
        adjusted_cx_funding == cx.funding_rate
        price_diff_percent == PctDiff(bp_price, hl_price)
        cx_bp_price_diff_percent ==
            IF IsNone(cx.price) THEN None
            ELSE Some(PctDiff(Val(cx.price), bp_price))
        cx_hl_price_diff_percent ==
            IF IsNone(cx.price) THEN None
            ELSE Some(PctDiff(Val(cx.price), hl_price))
        fd == calculate_funding_diff(bp_funding, hl_funding)
        cx_bp_funding_diff ==
            IF IsNone(adjusted_cx_funding) THEN None
            ELSE Some(calculate_funding_diff(Val(adjusted_cx_funding), bp_funding).diff)
        cx_hl_funding_diff ==
            IF IsNone(adjusted_cx_funding) THEN None
            ELSE Some(calculate_funding_diff(Val(adjusted_cx_funding),
                                             adjusted_hl_funding).diff)
        has_bp == s \in DOMAIN pos["backpack"]
        has_hl == s \in DOMAIN pos["hyperliquid"]
        has_cx == s \in DOMAIN pos["coinex"]
        \* no position: the answer of the open check decides
        OpenAnswer(chk) ==
            IF chk.raised THEN Out("raised", <<>>, <<>>, chk.preferred)
            ELSE IF chk.should_open
            THEN Out("open",
                     <<[symbol |-> s, funding_diff |-> fd.diff,
                        bp_funding |-> bp_funding,
                        hl_funding |-> adjusted_hl_funding,
                        cx_funding |-> adjusted_cx_funding,
                        available_size |-> chk.available_size]>>,
                     <<>>, chk.preferred)
            ELSE Out("no_open", <<>>, <<>>, chk.preferred)
        OpenBranch(chk) ==
            [OpenAnswer(chk) EXCEPT !.direction_checked = chk.direction_checked]
        \* positions on two venues: the answer of the close check decides
        CloseBranch(cl) ==
            IF cl.kind = "raised" THEN Checked("raised", <<>>, pref)
            ELSE IF cl.should_close /\ ~IsNone(cl.position)
            THEN Checked("close",
                         <<[symbol |-> s, position |-> Val(cl.position)]>>, pref)
            ELSE Checked(cl.kind, <<>>, pref)
    IN  IF ~is_data_valid(store, avail, s, t, max_age_seconds)
        THEN Out("invalid", <<>>, <<>>, pref)
        ELSE IF \/ IsNone(hl.funding_rate) \/ IsNone(bp.price)
                \/ IsNone(hl.price) \/ IsNone(bp.funding_rate)
        THEN Out("raised", <<>>, <<>>, pref)
        ELSE IF ~HasPosition(pos, s)
        THEN OpenBranch(CheckOpenConditions(cfg, s, data, pos, pref, bp_price,
                            hl_price, bp_funding, adjusted_hl_funding,
                            price_diff_percent, fd.diff,
                            cx.price, adjusted_cx_funding))
        ELSE IF has_bp /\ has_hl
        THEN CloseBranch(CheckCloseConditions(cfg, s, data, open_times, t,
                            pos["backpack"][s], pos["hyperliquid"][s],
                            bp_price, Some(hl_price), bp_funding,
                            Some(adjusted_hl_funding),
                            Some(price_diff_percent), Some(fd.diff)))
        ELSE IF has_bp /\ has_cx
        THEN CloseBranch(CheckCloseConditions(cfg, s, data, open_times, t,
                            pos["backpack"][s], pos["coinex"][s],
                            bp_price, cx.price, bp_funding, adjusted_cx_funding,
                            cx_bp_price_diff_percent, cx_bp_funding_diff))
        ELSE IF has_hl /\ has_cx
        THEN CloseBranch(CheckCloseConditions(cfg, s, data, open_times, t,
                            pos["hyperliquid"][s], pos["coinex"][s],
                            hl_price, cx.price, adjusted_hl_funding,
                            adjusted_cx_funding,
                            cx_hl_price_diff_percent, cx_hl_funding_diff))
        ELSE Out("single_leg", <<>>, <<>>, pref)

---------------------------------------------------------------------------
(* Calls whose keywords must match the callee's parameters                 *)

\* def _save_position_snapshot(self, symbol, action, bp_position,
\*     hl_position, bp_price, hl_price, bp_funding, hl_funding)
SnapshotParameters ==
    {"symbol", "action", "bp_position", "hl_position",
     "bp_price", "hl_price", "bp_funding", "hl_funding"}

\* the keywords both callers pass
SnapshotCallKeywords ==
    {"symbol", "action", "bp_position", "hl_position", "cx_position",
     "bp_price", "hl_price", "cx_price",
     "bp_funding", "hl_funding", "cx_funding"}

\* CoinExAPI.place_order(self, base_symbol, side, size, price, order_type, params)
CoinExOrderParameters ==
    {"base_symbol", "side", "size", "price", "order_type", "params"}

\* the keywords _open_position and _close_position pass to every place_order
OrderCallKeywords == {"symbol", "side", "size", "price", "order_type"}

\* a Python call binds only when every keyword names a parameter;
\* otherwise it raises TypeError before the callee runs
CallBinds(keywords, parameters) == keywords \subseteq parameters

\* json.dump writes an int sign as its decimal text
JsonNumber(n) == IF n = 1 THEN "1" ELSE IF n = -1 THEN "-1" ELSE "0"

\* variant: the text is read without its minus sign
IntOfUnsigned(tok) == IF tok = "1" THEN 1 ELSE IF tok = "-1" THEN 1 ELSE 0

\* json.load followed by int(sign)
IntOf(tok) == IF tok = "1" THEN 1 ELSE IF tok = "-1" THEN -1 ELSE 0

\* the sign file: None when it does not exist, else its text; a text that
\* is not a JSON object of numbers is not readable
NoFile == None
Unreadable == Some([readable |-> FALSE, doc |-> EmptyMap])

\* variant: the file is left as it was
save_funding_diff_signs_skipped(signs, file, ok) == file

\* _save_funding_diff_signs: open(..., 'w') and json.dump of the whole map; a
\* failure is logged and swallowed
save_funding_diff_signs(signs, file, ok) ==
    IF ok
    THEN Some([readable |-> TRUE,
               doc |-> [s \in DOMAIN signs |-> JsonNumber(signs[s])]])
    ELSE file

\* _load_funding_diff_signs: {} when the file does not exist or when reading
\* it raises
load_funding_diff_signs(file) ==
    IF IsNone(file) THEN EmptyMap
    ELSE IF ~Val(file).readable THEN EmptyMap
    ELSE [s \in DOMAIN Val(file).doc |-> IntOf(Val(file).doc[s])]

\* _save_position_snapshot called by the engine: the file is written only
\* when the call binds
SavePositionSnapshot(files, s, action, t) ==
    IF CallBinds(SnapshotCallKeywords, SnapshotParameters)
    THEN files \cup {[symbol |-> s, action |-> action, timestamp |-> t]}
    ELSE files

---------------------------------------------------------------------------
(* _open_position                                                          *)

\* index of the first occurrence of the minimum / maximum (list.index)
FirstIndexOf(seq, x) == CHOOSE i \in 1..Len(seq) :
                            seq[i] = x /\ \A j \in 1..(i - 1) : seq[j] # x
SeqMin(seq) == CHOOSE x \in {seq[i] : i \in 1..Len(seq)} :
                   \A j \in 1..Len(seq) : x <= seq[j]
SeqMax(seq) == CHOOSE x \in {seq[i] : i \in 1..Len(seq)} :
                   \A j \in 1..Len(seq) : x >= seq[j]

\* "min_idx = funding_rates.index(min(funding_rates))", the same for max,
\* then the loop over enumerate(exchanges): the lowest buys, else the
\* highest sells, every other venue keeps None
RankedSides(exchanges, funding_rates) ==
    LET min_idx == FirstIndexOf(funding_rates, SeqMin(funding_rates))
        max_idx == FirstIndexOf(funding_rates, SeqMax(funding_rates))
        ranked(i) == IF i = min_idx THEN "BUY"
                     ELSE IF i = max_idx THEN "SELL" ELSE NoSide
        side_of(v) == IF \E i \in 1..Len(exchanges) : exchanges[i] = v
                      THEN ranked(CHOOSE i \in 1..Len(exchanges) : exchanges[i] = v)
                      ELSE NoSide
    IN  [bp_side |-> side_of("backpack"), hl_side |-> side_of("hyperliquid"),
         cx_side |-> side_of("coinex")]

\* the sides _open_position trades: the stored preferred sides when there
\* are any, else the fallback rule.  hl_funding is the candidate's value.
OpenSides(pref, s, bp_funding, hl_funding, cx_funding) ==
    IF s \in DOMAIN pref
    THEN [bp_side |-> pref[s].bp_side, hl_side |-> pref[s].hl_side,
          cx_side |-> pref[s].cx_side, from_preferred |-> TRUE]
    ELSE
    LET adjusted_hl_funding == hl_funding * 8
        exchanges == IF IsNone(cx_funding)
                     THEN <<"backpack", "hyperliquid">>
                     ELSE <<"backpack", "hyperliquid", "coinex">>
        funding_rates == IF IsNone(cx_funding)
                         THEN <<bp_funding, adjusted_hl_funding>>
                         ELSE <<bp_funding, adjusted_hl_funding, Val(cx_funding)>>
        min_idx == FirstIndexOf(funding_rates, SeqMin(funding_rates))
        max_idx == FirstIndexOf(funding_rates, SeqMax(funding_rates))
        ranked(i) == IF i = min_idx THEN "BUY"
                     ELSE IF i = max_idx THEN "SELL" ELSE NoSide
        cx_side == IF IsNone(cx_funding) THEN NoSide ELSE ranked(3)
        bp_side ==
            IF bp_funding < 0 /\ hl_funding < 0
            THEN IF Abs(bp_funding) > Abs(hl_funding) THEN "BUY" ELSE "SELL"
            ELSE IF bp_funding > 0 /\ hl_funding > 0
            THEN IF bp_funding > hl_funding THEN "SELL" ELSE "BUY"
            ELSE IF bp_funding > 0 THEN "SELL" ELSE "BUY"
        hl_side ==
            IF bp_funding < 0 /\ hl_funding < 0
            THEN IF Abs(bp_funding) > Abs(hl_funding) THEN "SELL" ELSE "BUY"
            ELSE IF bp_funding > 0 /\ hl_funding > 0
            THEN IF bp_funding > hl_funding THEN "BUY" ELSE "SELL"
            ELSE IF hl_funding > 0 THEN "SELL" ELSE "BUY"
    IN  [bp_side |-> bp_side, hl_side |-> hl_side, cx_side |-> cx_side,
         from_preferred |-> FALSE]

\* the order size: available_size, raised to min_volume, capped at
\* max_position_size
OpenSize(pair, available_size) ==
    LET a == IF available_size < pair.min_volume THEN pair.min_volume
             ELSE available_size
    IN  IF a > pair.max_position_size THEN pair.max_position_size ELSE a

\* variant: two filled legs are enough
OpenSucceededAtLeastTwo(successful_exchanges, required_exchanges) ==
    successful_exchanges >= 2 /\ required_exchanges >= 2

\* successful_exchanges == required_exchanges and required_exchanges >= 2
OpenSucceeded(successful_exchanges, required_exchanges) ==
    successful_exchanges = required_exchanges /\ required_exchanges >= 2

\* pos.get(key, 0) on a position record
FieldOr0(rec, key) == IF key \in DOMAIN rec THEN rec[key] ELSE 0

\* a leg is judged filled when its venue's record appears, or when the
\* field the engine compares moved by at least 80 % of the order size
LegChanged(side, pre, post, size, key) ==
    /\ side # NoSide
    /\ \/ IsNone(pre) /\ ~IsNone(post)
       \/ /\ ~IsNone(pre) /\ ~IsNone(post)
          /\ Abs(FieldOr0(Val(post), key) - FieldOr0(Val(pre), key)) * 10
                >= 8 * size

\* messages _open_position can emit; names_symbol says whether the text
\* carries the symbol
Msg(channel, level, says, names_symbol) ==
    [channel |-> channel, level |-> level, says |-> says,
     names_symbol |-> names_symbol]

\* what the venues do with the submitted orders: Backpack's market order
\* fills or is refused, Hyperliquid's limit order fills, rests or is refused
OrderOutcomes ==
    {[backpack |-> b, hyperliquid |-> h, coinex |-> "failed"] :
        b \in {"filled", "failed"}, h \in {"filled", "resting", "failed"}}

\* signed quantity an order adds at its venue.  Hyperliquid's adapter
\* computes is_buy = (side.upper() == "BUY"), so any other side sells.
OrderDelta(venue, side, size, outcome) ==
    IF outcome # "filled" THEN 0
    ELSE IF side = "BUY" THEN size
    ELSE IF side = "SELL" THEN 0 - size
    ELSE IF venue = "hyperliquid" THEN 0 - size
    ELSE 0

\* _open_position.  prices: the store after get_data; pre_ok, post_ok: which
\* get_positions calls answer; outcome: what each venue does with its
\* order; save_ok: whether the sign file can be written.
OpenPosition(cfg, avail, store, qty, tagged, pref, signs, file, dirs, times, eprices, efunding, files, t, c, pre_ok, post_ok, outcome, save_ok) ==
    LET s == c.symbol
        data == store[s]
        bp_price == data["backpack"].price
        hl_price == data["hyperliquid"].price
        cx_price == data["coinex"].price
        Early(why) ==
            [returned_early |-> TRUE, raised |-> FALSE,
             sides |-> [bp_side |-> NoSide, hl_side |-> NoSide, cx_side |-> NoSide],
             from_preferred |-> FALSE, size |-> 0, submitted |-> {},
             required |-> 0, changed |-> {}, success |-> FALSE,
             signals |-> {Msg("log", "error", why, s \in Symbols)},
             qty |-> qty, preferred |-> pref, signs |-> signs, file |-> file,
             dirs |-> dirs, times |-> times, eprices |-> eprices,
             efunding |-> efunding, files |-> files]
        pair == cfg.trading_pairs[s]
        size == OpenSize(pair, c.available_size)
        fd == calculate_funding_diff(c.bp_funding, c.hl_funding)
        signs1 == Put(signs, s, fd.sign)
        file1 == save_funding_diff_signs(signs1, file, save_ok)
        pref1 == Del(pref, s)
        snapshot_raises == ~CallBinds(SnapshotCallKeywords, SnapshotParameters)
        success_msgs == {Msg("log", "info", "open_succeeded", TRUE),
                         Msg("display", "info", "open_succeeded", TRUE)}
        raise_msgs == {Msg("log", "error", "open_exception", TRUE),
                       Msg("display", "error", "open_exception", TRUE)}
        \* the result check: which legs count as filled, and what is
        \* recorded and said
        Judge(sd, side_of, sent, submitted, qty1, changed) ==
            LET required_exchanges ==
                    Cardinality({v \in Venues : side_of[v] # NoSide})
                successful_exchanges == Cardinality(changed)
                success == OpenSucceeded(successful_exchanges, required_exchanges)
                order_logs ==
                    {Msg("log", "error", "order_failed", FALSE) :
                        v \in {w \in {"backpack", "hyperliquid"} :
                                 side_of[w] # NoSide
                                    /\ (~sent[w] \/ outcome[w] = "failed")}}
                    \cup (IF sd.cx_side # NoSide
                          THEN {Msg("log", "error", "order_failed", FALSE)}
                          ELSE {})
                routine == {Msg("log", "info", "positions_before", TRUE),
                            Msg("log", "info", "placing_orders", TRUE),
                            Msg("log", "info", "positions_after", TRUE)}
                           \cup {Msg("log", "info", "leg_established", TRUE) :
                                    v \in changed}
            IN  [returned_early |-> FALSE,
                 raised |-> success /\ snapshot_raises,
                 sides |-> [bp_side |-> sd.bp_side, hl_side |-> sd.hl_side,
                            cx_side |-> sd.cx_side],
                 from_preferred |-> sd.from_preferred, size |-> size,
                 submitted |-> submitted, required |-> required_exchanges,
                 changed |-> changed, success |-> success,
                 signals |-> routine \cup order_logs
                             \cup (IF success THEN success_msgs ELSE {})
                             \cup (IF success /\ snapshot_raises
                                   THEN raise_msgs ELSE {}),
                 qty |-> qty1, preferred |-> pref1, signs |-> signs1,
                 file |-> file1,
                 dirs |-> IF success
                          THEN Put(dirs, s, [bp_side |-> sd.bp_side,
                                             hl_side |-> sd.hl_side,
                                             cx_side |-> sd.cx_side])
                          ELSE dirs,
                 times |-> IF success THEN Put(times, s, t) ELSE times,
                 eprices |-> IF success
                             THEN Put(eprices, s, [bp_price |-> bp_price,
                                                   hl_price |-> hl_price,
                                                   cx_price |-> cx_price])
                             ELSE eprices,
                 efunding |-> IF success
                              THEN Put(efunding, s,
                                       [bp_funding |-> c.bp_funding,
                                        hl_funding |-> c.hl_funding,
                                        cx_funding |-> c.cx_funding])
                              ELSE efunding,
                 files |-> IF success
                           THEN SavePositionSnapshot(files, s, "open", t)
                           ELSE files]
        \* positions before, the orders, positions after
        Trade(sd, cx_asked, side_of, sent) ==
            LET pre == [v \in Venues |->
                          IF v = "coinex" /\ ~cx_asked THEN None
                          ELSE FindBySymbol(GetPositions(qty[v], pre_ok[v]),
                                            tagged[v], s)]
                submitted == {[venue |-> v, side |-> side_of[v], size |-> size] :
                                v \in {w \in Venues : sent[w]}}
                qty1 == [v \in Venues |->
                           [x \in Symbols |->
                              IF x = s /\ sent[v]
                              THEN qty[v][x]
                                   + OrderDelta(v, side_of[v], size, outcome[v])
                              ELSE qty[v][x]]]
                post == [v \in Venues |->
                           IF v = "coinex" /\ ~cx_asked THEN None
                           ELSE FindBySymbol(GetPositions(qty1[v], post_ok[v]),
                                             tagged[v], s)]
                bp_position_changed ==
                    LegChanged(sd.bp_side, pre["backpack"], post["backpack"],
                               size, "quantity")
                hl_position_changed ==
                    LegChanged(sd.hl_side, pre["hyperliquid"],
                               post["hyperliquid"], size, "size")
                cx_position_changed ==
                    LegChanged(sd.cx_side, pre["coinex"], post["coinex"],
                               size, "size")
            IN  Judge(sd, side_of, sent, submitted, qty1,
                      {v \in Venues :
                          \/ v = "backpack" /\ bp_position_changed
                          \/ v = "hyperliquid" /\ hl_position_changed
                          \/ v = "coinex" /\ cx_position_changed})
        \* place_order calls that bind and carry a side the adapter accepts
        Orders(sd, cx_asked) ==
            Trade(sd, cx_asked,
                  [backpack |-> sd.bp_side, hyperliquid |-> sd.hl_side,
                   coinex |-> sd.cx_side],
                  [backpack |-> sd.bp_side \in {"BUY", "SELL"},
                   hyperliquid |-> sd.hl_side # NoSide,
                   coinex |-> /\ cx_asked /\ ~IsNone(cx_price)
                              /\ CallBinds(OrderCallKeywords,
                                           CoinExOrderParameters)])
        Sides(sd) == Orders(sd, avail["coinex"] /\ sd.cx_side # NoSide)
    IN  IF IsNone(bp_price) \/ IsNone(hl_price) THEN Early("price_invalid")
        ELSE IF s \notin DOMAIN cfg.trading_pairs THEN Early("no_pair_config")
        ELSE Sides(OpenSides(pref, s, c.bp_funding, c.hl_funding, c.cx_funding))

---------------------------------------------------------------------------
(* _close_position                                                         *)

\* The handler subscripts position["cx_side"] (KeyError when the key is
\* absent).  Past that line every path ends without the success branch:
\* the names tick_size and price_precision are not bound in the function.
ClosePositionOutcome(position) ==
    IF "cx_side" \in DOMAIN position THEN "not_closed" ELSE "exception"

\* variant: the records are deleted whatever the outcome
CloseDeletesRecordsAlways(outcome) == TRUE

\* "if all_closed and position_closed:" guards the deletion of the records
CloseDeletesRecords(outcome) == outcome = "all_closed"

ClosePosition(signs, file, dirs, times, eprices, efunding, files, t, c, save_ok) ==
    LET s == c.symbol
        outcome == ClosePositionOutcome(c.position)
        deletes == CloseDeletesRecords(outcome)
        signs1 == IF deletes THEN Del(signs, s) ELSE signs
    IN  [outcome |-> outcome,
         attempted |-> {"backpack", "hyperliquid"},
         confirmed |-> {},
         submitted |-> {},
         signals |-> {Msg("log", "info", "close_attempt", TRUE),
                      Msg("display", "info", "close_attempt", TRUE)}
                     \cup (IF outcome = "exception"
                           THEN {Msg("log", "error", "close_exception", TRUE),
                                 Msg("display", "error", "close_exception", TRUE)}
                           ELSE {}),
         signs |-> signs1,
         file |-> IF deletes /\ s \in DOMAIN signs
                  THEN save_funding_diff_signs(signs1, file, save_ok) ELSE file,
         dirs |-> IF deletes THEN Del(dirs, s) ELSE dirs,
         times |-> IF deletes THEN Del(times, s) ELSE times,
         eprices |-> IF deletes THEN Del(eprices, s) ELSE eprices,
         efunding |-> IF deletes THEN Del(efunding, s) ELSE efunding,
         files |-> IF deletes THEN SavePositionSnapshot(files, s, "close", t)
                   ELSE files]

---------------------------------------------------------------------------
(* Configuration and the inputs the environment offers                     *)

PairConfig == [max_position_size |-> 10, min_volume |-> 1]

BaseConfig ==
    [symbols |-> <<"BTC">>,
     trading_pairs |-> [s \in {"BTC"} |-> PairConfig],
     max_positions_count |-> 5,
     open_conditions |->
        [condition_type |-> "funding_only", min_funding_diff |-> 10,
         min_price_diff_percent |-> 20, max_price_diff_percent |-> 100,
         max_slippage_percent |-> 15, ignore_high_slippage |-> FALSE,
         check_direction_consistency |-> FALSE],
     close_conditions |->
        [condition_type |-> "any", min_funding_diff |-> 5,
         min_profit_percent |-> 10, max_close_slippage_percent |-> 25,
         ignore_close_slippage |-> FALSE, min_position_time |-> 2]]

CheckedConfig ==
    [BaseConfig EXCEPT !.open_conditions.condition_type = "any",
                       !.open_conditions.check_direction_consistency = TRUE]

Configs == {BaseConfig, CheckedConfig}

ConfigSymbols(cfg) == {cfg.symbols[i] : i \in 1..Len(cfg.symbols)}

\* what the three price requests of update_prices answer (None: no answer)
PriceOffers ==
    {[backpack |-> None, hyperliquid |-> None, coinex |-> None],
     [backpack |-> Some(1000), hyperliquid |-> Some(1000), coinex |-> Some(1000)],
     [backpack |-> Some(1005), hyperliquid |-> Some(1000), coinex |-> Some(1000)]}

\* what the funding requests answer: Backpack's 8-hour rate, Hyperliquid's
\* 1-hour rate, CoinEx's rate
FundingOffers ==
    {[backpack |-> Some(8), hyperliquid |-> Some(-1), coinex |-> Some(4)],
     [backpack |-> Some(8), hyperliquid |-> Some(-1), coinex |-> Some(12)],
     [backpack |-> Some(-8), hyperliquid |-> Some(1), coinex |-> Some(4)],
     [backpack |-> Some(0), hyperliquid |-> Some(-2), coinex |-> Some(4)]}

\* which adapters the engine was built with
AdapterSets ==
    {[v \in Venues |-> TRUE], [v \in Venues |-> v # "coinex"]}

\* total slippage the order-book analysis yields (None: it raised)
SlippageOffers == {None, Some(10)}

\* which get_positions requests answer
AllAnswer == [v \in Venues |-> TRUE]
FetchOffers ==
    {AllAnswer, [AllAnswer EXCEPT !["backpack"] = FALSE]}

\* inputs of _open_position: its own price refresh comes moments after the
\* scan's, its position requests answer, the sign file is writable
NoQuote == [backpack |-> None, hyperliquid |-> None, coinex |-> None]
OpenPriceOffers == {NoQuote}
OpenFetchOffers == {AllAnswer}
SaveOffers == {TRUE}

\* shapes of the venues' position records: whether they carry the
\* "symbol" field the engine's lookup reads.  The records the Backpack and
\* Hyperliquid adapters of this repository build do not carry it.
ShippedShape == [backpack |-> FALSE, hyperliquid |-> FALSE, coinex |-> TRUE]
TaggedShape == [backpack |-> TRUE, hyperliquid |-> TRUE, coinex |-> TRUE]

\* the deployments explored: configuration, adapters, record shape
Deployments ==
    {[config |-> c, available |-> a, tagged |-> TaggedShape] :
        c \in Configs, a \in AdapterSets}
    \cup {[config |-> BaseConfig, available |-> AllAnswer,
            tagged |-> ShippedShape]}

---------------------------------------------------------------------------
(* DataManager updates                                                     *)

\* update_prices: for every symbol, a venue's price and price_timestamp
\* are overwritten only when the request answers
WithPrices(store, avail, offers, t) ==
    [s \in DOMAIN store |->
        [k \in DOMAIN store[s] |->
            IF k \in Venues /\ avail[k] /\ ~IsNone(offers[s][k])
            THEN [store[s][k] EXCEPT !.price = offers[s][k],
                                     !.price_timestamp = Some(t)]
            ELSE store[s][k]]]

\* variant: the timestamp is left for a later step
WithFundingRateOnly(store, avail, s, offer, t) ==
    [store EXCEPT ![s] =
        [k \in DOMAIN store[s] |->
            IF k \in Venues /\ avail[k] /\ ~IsNone(offer[k])
            THEN [store[s][k] EXCEPT !.funding_rate = offer[k]]
            ELSE store[s][k]]]

\* update_funding_rates for one symbol
WithFunding(store, avail, s, offer, t) ==
    [store EXCEPT ![s] =
        [k \in DOMAIN store[s] |->
            IF k \in Venues /\ avail[k] /\ ~IsNone(offer[k])
            THEN [store[s][k] EXCEPT !.funding_rate = offer[k],
                                     !.funding_timestamp = Some(t)]
            ELSE store[s][k]]]

\* market_data[symbol]["total_slippage"] = total_slippage
WithSlippage(store, s, slip) ==
    IF IsNone(slip) THEN store
    ELSE [store EXCEPT ![s] = [store[s] EXCEPT !.total_slippage = slip]]

\* the scan reaches the slippage analysis: data valid and the four values
\* it computes with are present
ScanReady(store, avail, s, t) ==
    /\ is_data_valid(store, avail, s, t, max_age_seconds)
    /\ ~IsNone(store[s]["backpack"].price)
    /\ ~IsNone(store[s]["hyperliquid"].price)
    /\ ~IsNone(store[s]["backpack"].funding_rate)
    /\ ~IsNone(store[s]["hyperliquid"].funding_rate)

EmptyData ==
    [backpack |-> EmptySlot, hyperliquid |-> EmptySlot, coinex |-> EmptySlot,
     total_slippage |-> None]

---------------------------------------------------------------------------
(* Main loop                                                               *)

\* _update_position_direction_info: the direction record follows the
\* cycle's position reports
UpdatePositionDirectionInfo(dirs, symbols, pos) ==
    LET side(v, s) == IF s \in DOMAIN pos[v] THEN pos[v][s].side ELSE NoSide
        held == {s \in symbols : HasPosition(pos, s)}
    IN  [s \in (DOMAIN dirs \ symbols) \cup held |->
            IF s \in held
            THEN [bp_side |-> side("backpack", s),
                  hl_side |-> side("hyperliquid", s),
                  cx_side |-> side("coinex", s)]
            ELSE dirs[s]]

\* no handler call is being followed
LegsIdle ==
    [handler |-> "none", phase |-> "idle",
     sides |-> [v \in Venues |-> NoSide],
     task |-> [v \in Venues |-> "none"],
     raised |-> {}, failed |-> {},
     read |-> {}, snapshot |-> FALSE, decided |-> FALSE]

NoEval ==
    [symbol |-> "", kind |-> "none", ready |-> FALSE, held |-> {},
     open |-> FALSE, close |-> FALSE, close_checked |-> FALSE,
     direction_checked |-> FALSE, slippage |-> None,
     would_open |-> FALSE, would_close |-> FALSE]

NoCall ==
    [op |-> "none", symbol |-> "", returned_early |-> FALSE, raised |-> FALSE,
     sides |-> [bp_side |-> NoSide, hl_side |-> NoSide, cx_side |-> NoSide],
     from_preferred |-> FALSE, size |-> 0, submitted |-> {}, required |-> 0,
     changed |-> {}, success |-> FALSE, outcome |-> "none", signals |-> {}]

\* whether display_manager.update_market_data returns (TRUE) or raises
DisplayOffers == {TRUE, FALSE}

\* variant: an exception of the cycle is not caught
AfterDisplayUncaught(shown) == IF shown THEN "collect" ELSE "stopped"

\* the try block of the cycle goes on to the scan; an exception takes it to
\* "except Exception as e:", which logs, prints and sleeps 5 seconds
AfterDisplay(shown) == IF shown THEN "collect" ELSE "pause"

\* the top of a cycle: the three get_positions calls, the direction
\* records, the display update
CycleStart ==
    /\ pc = "start"
    /\ \E ok \in FetchOffers :
         LET pos == [v \in Venues |->
                       IF available[v] THEN GetPositions(venue_qty[v], ok[v])
                       ELSE EmptyMap]
         IN  /\ cycle_positions' = pos
             /\ position_directions' =
                  UpdatePositionDirectionInfo(position_directions,
                                              DOMAIN latest_data, pos)
    /\ \E shown \in DisplayOffers : pc' = AfterDisplay(shown)
    /\ open_candidates' = <<>>
    /\ close_candidates' = <<>>
    /\ sym_idx' = 1
    /\ UNCHANGED <<legs, call_args, call_result, config, now, available, latest_data, valid_result, venue_qty,
                   symbolTagged, funding_diff_signs, signs_file,
                   position_open_times, entry_prices, entry_funding_rates,
                   preferred_sides, snapshots, last_eval, last_call>>

\* variant: the close batch goes first
AfterScanClosesFirst(opens, closes) ==
    IF Len(closes) > 0 THEN "close"
    ELSE IF Len(opens) > 0 THEN "open" ELSE "sleep"

\* where the loop goes after the scan or after a batch
AfterScan(opens, closes) ==
    IF Len(opens) > 0 THEN "open"
    ELSE IF Len(closes) > 0 THEN "close" ELSE "sleep"

\* _collect_arbitrage_opportunity for the next configured symbol
Collect ==
    /\ pc = "collect"
    /\ sym_idx <= Len(config.symbols)
    /\ \E offers \in [DOMAIN latest_data -> PriceOffers], slip \in SlippageOffers :
         LET s == config.symbols[sym_idx]
             store1 == WithPrices(latest_data, available, offers, now)
             ready == ScanReady(store1, available, s, now)
             store2 == IF ready THEN WithSlippage(store1, s, slip) ELSE store1
             \* ev: the scan's decision; anytime, unheld: the same scan
             \* with no open time recorded, and with no position reported
             Scanned(ev, anytime, unheld) ==
                /\ preferred_sides' = ev.preferred
                /\ open_candidates' = open_candidates \o ev.open
                /\ close_candidates' = close_candidates \o ev.close
                /\ last_eval' =
                     [symbol |-> s, kind |-> ev.kind, ready |-> ready,
                      held |-> {v \in Venues : s \in DOMAIN cycle_positions[v]},
                      open |-> Len(ev.open) > 0, close |-> Len(ev.close) > 0,
                      close_checked |-> ev.close_checked,
                      direction_checked |-> ev.direction_checked,
                      slippage |-> IF ready THEN slip ELSE None,
                      would_open |-> Len(unheld.open) > 0,
                      would_close |-> Len(anytime.close) > 0]
                /\ IF sym_idx = Len(config.symbols)
                   THEN /\ pc' = AfterScan(open_candidates \o ev.open,
                                           close_candidates \o ev.close)
                        /\ sym_idx' = 1
                   ELSE /\ pc' = pc
                        /\ sym_idx' = sym_idx + 1
         IN  /\ latest_data' = store2
             /\ Scanned(EvalSymbol(config, available, store2, cycle_positions,
                                   preferred_sides, position_open_times, now, s),
                        EvalSymbol(config, available, store2, cycle_positions,
                                   preferred_sides, EmptyMap, now, s),
                        EvalSymbol(config, available, store2,
                                   [v \in Venues |-> EmptyMap],
                                   preferred_sides, position_open_times, now, s))
    /\ UNCHANGED <<legs, call_args, call_result, config, now, available, valid_result, venue_qty,
                   symbolTagged, funding_diff_signs, signs_file,
                   position_directions, position_open_times, entry_prices,
                   entry_funding_rates, snapshots, cycle_positions, last_call>>

\* variant: the batch stays on the candidate it has just executed
NextCandidateAgain(i) == i

\* "for candidate in open_candidates:" / "for candidate in
\* close_candidates:" take the candidates one after the other
NextCandidate(i) == i + 1

\* one candidate of the open batch
Open ==
    /\ pc = "open"
    /\ sym_idx <= Len(open_candidates)
    /\ \E offers \in [DOMAIN latest_data -> OpenPriceOffers],
          pre_ok \in OpenFetchOffers, post_ok \in OpenFetchOffers,
          outcome \in OrderOutcomes, save_ok \in SaveOffers :
         LET c == open_candidates[sym_idx]
             store1 == WithPrices(latest_data, available, offers, now)
             Opened(r) ==
                /\ venue_qty' = r.qty
                /\ preferred_sides' = r.preferred
                /\ funding_diff_signs' = r.signs
                /\ signs_file' = r.file
                /\ position_directions' = r.dirs
                /\ position_open_times' = r.times
                /\ entry_prices' = r.eprices
                /\ entry_funding_rates' = r.efunding
                /\ snapshots' = r.files
                /\ last_call' =
                     [op |-> "open", symbol |-> c.symbol,
                      returned_early |-> r.returned_early, raised |-> r.raised,
                      sides |-> r.sides, from_preferred |-> r.from_preferred,
                      size |-> r.size, submitted |-> r.submitted,
                      required |-> r.required, changed |-> r.changed,
                      success |-> r.success,
                      outcome |-> IF r.returned_early THEN "returned_early"
                                  ELSE IF r.success THEN "opened"
                                  ELSE IF r.changed = {} THEN "none_filled"
                                  ELSE "partial",
                      signals |-> r.signals]
         IN  /\ latest_data' = store1
             /\ Opened(OpenPosition(config, available, store1, venue_qty,
                             symbolTagged, preferred_sides, funding_diff_signs,
                             signs_file, position_directions,
                             position_open_times, entry_prices,
                             entry_funding_rates, snapshots,
                             now, c, pre_ok, post_ok, outcome, save_ok))
    /\ IF sym_idx = Len(open_candidates)
       THEN /\ pc' = AfterScan(<<>>, close_candidates)
            /\ sym_idx' = 1
       ELSE /\ pc' = pc
            /\ sym_idx' = NextCandidate(sym_idx)
    /\ UNCHANGED <<legs, call_args, call_result, config, now, available, valid_result, symbolTagged,
                   cycle_positions, open_candidates, close_candidates,
                   last_eval>>

\* one candidate of the close batch
Close ==
    /\ pc = "close"
    /\ sym_idx <= Len(close_candidates)
    /\ \E save_ok \in SaveOffers :
         LET c == close_candidates[sym_idx]
             Closed(r) ==
                /\ funding_diff_signs' = r.signs
                /\ signs_file' = r.file
                /\ position_directions' = r.dirs
                /\ position_open_times' = r.times
                /\ entry_prices' = r.eprices
                /\ entry_funding_rates' = r.efunding
                /\ snapshots' = r.files
                /\ last_call' =
                     [op |-> "close", symbol |-> c.symbol,
                      returned_early |-> FALSE,
                      raised |-> r.outcome = "exception",
                      sides |-> [bp_side |-> c.position.bp_side,
                                 hl_side |-> c.position.hl_side,
                                 cx_side |-> NoSide],
                      from_preferred |-> FALSE, size |-> 0,
                      submitted |-> r.submitted,
                      required |-> Cardinality(r.attempted),
                      changed |-> r.confirmed,
                      success |-> r.outcome = "all_closed",
                      outcome |-> r.outcome, signals |-> r.signals]
         IN  Closed(ClosePosition(funding_diff_signs, signs_file,
                          position_directions, position_open_times,
                          entry_prices, entry_funding_rates, snapshots,
                          now, c, save_ok))
    /\ IF sym_idx = Len(close_candidates)
       THEN /\ pc' = "sleep"
            /\ sym_idx' = 1
       ELSE /\ pc' = pc
            /\ sym_idx' = NextCandidate(sym_idx)
    /\ UNCHANGED <<legs, call_args, call_result, config, now, available, latest_data, valid_result, venue_qty,
                   symbolTagged, preferred_sides, cycle_positions,
                   open_candidates, close_candidates, last_eval>>

\* await asyncio.sleep(check_interval)
Sleep ==
    /\ pc = "sleep"
    /\ now < MaxTime
    /\ now' = now + 1
    /\ pc' = "start"
    /\ cycle_positions' = [v \in Venues |-> EmptyMap]
    /\ open_candidates' = <<>>
    /\ close_candidates' = <<>>
    /\ last_eval' = NoEval
    /\ last_call' = NoCall
    /\ UNCHANGED <<legs, call_args, call_result, config, available, latest_data, valid_result, venue_qty,
                   symbolTagged, funding_diff_signs, signs_file,
                   position_directions, position_open_times, entry_prices,
                   entry_funding_rates, preferred_sides, snapshots, sym_idx>>

\* "await asyncio.sleep(5)" of the cycle's except clause, then the next
\* turn of "while self.is_running"
Pause ==
    /\ pc = "pause"
    /\ pc' = "start"
    /\ cycle_positions' = [v \in Venues |-> EmptyMap]
    /\ last_eval' = NoEval
    /\ last_call' = NoCall
    /\ UNCHANGED <<legs, call_args, call_result, config, now, available, latest_data, valid_result, venue_qty,
                   symbolTagged, funding_diff_signs, signs_file,
                   position_directions, position_open_times, entry_prices,
                   entry_funding_rates, preferred_sides, snapshots, sym_idx,
                   open_candidates, close_candidates>>

\* the funding loop refreshes one symbol's funding rates
FundingUpdate ==
    /\ pc = "start"
    /\ \E s \in DOMAIN latest_data, offer \in FundingOffers :
         /\ latest_data' = WithFunding(latest_data, available, s, offer, now)
         /\ latest_data' # latest_data
    /\ UNCHANGED <<legs, call_args, call_result, config, now, available, valid_result, venue_qty,
                   symbolTagged, funding_diff_signs, signs_file,
                   position_directions, position_open_times, entry_prices,
                   entry_funding_rates, preferred_sides, snapshots, pc, sym_idx,
                   cycle_positions, open_candidates, close_candidates,
                   last_eval, last_call>>

Init ==
    /\ \E d \in Deployments :
         /\ config = d.config
         /\ available = d.available
         /\ symbolTagged = d.tagged
    /\ now = 1
    /\ latest_data = [s \in ConfigSymbols(config) |-> EmptyData]
    /\ valid_result = None
    /\ venue_qty = [v \in Venues |-> [s \in Symbols |-> 0]]
    /\ signs_file = NoFile
    /\ funding_diff_signs = load_funding_diff_signs(signs_file)
    /\ position_directions = EmptyMap
    /\ position_open_times = EmptyMap
    /\ entry_prices = EmptyMap
    /\ entry_funding_rates = EmptyMap
    /\ preferred_sides = EmptyMap
    /\ snapshots = {}
    /\ pc = "start"
    /\ sym_idx = 1
    /\ cycle_positions = [v \in Venues |-> EmptyMap]
    /\ open_candidates = <<>>
    /\ close_candidates = <<>>
    /\ last_eval = NoEval
    /\ last_call = NoCall
    /\ call_args = None
    /\ call_result = None
    /\ legs = LegsIdle

Next ==
    \/ CycleStart
    \/ Collect
    \/ Open
    \/ Close
    \/ Sleep
    \/ Pause
    \/ FundingUpdate

Spec == Init /\ [][Next]_vars

---------------------------------------------------------------------------
(* is_data_valid exercised on its own: the store is drawn from            *)
(* representative slots, the adapters from all subsets                    *)

ValidNow == max_age_seconds + 2

Slot(price, funding_rate, price_timestamp, funding_timestamp) ==
    [price |-> price, funding_rate |-> funding_rate,
     price_timestamp |-> price_timestamp,
     funding_timestamp |-> funding_timestamp]

\* fresh, at the age limit, one tick past it (price or funding), and each
\* field missing
ValidSlots ==
    LET fresh == Some(ValidNow)
        limit == Some(ValidNow - max_age_seconds)
        stale == Some(ValidNow - max_age_seconds - 1)
    IN  {Slot(Some(1000), Some(8), fresh, fresh),
         Slot(Some(1000), Some(8), limit, limit),
         Slot(Some(1000), Some(8), stale, fresh),
         Slot(Some(1000), Some(8), fresh, stale),
         Slot(None, Some(8), fresh, fresh),
         Slot(Some(1000), None, fresh, fresh),
         Slot(Some(1000), Some(8), None, fresh),
         Slot(Some(1000), Some(8), fresh, None)}

InitValid ==
    /\ config = BaseConfig
    /\ now = ValidNow
    /\ available \in [Venues -> BOOLEAN]
    /\ \E bp \in ValidSlots, hl \in ValidSlots, cx \in ValidSlots :
         latest_data = [s \in ConfigSymbols(config) |->
                          [backpack |-> bp, hyperliquid |-> hl, coinex |-> cx,
                           total_slippage |-> None]]
    /\ valid_result = None
    /\ venue_qty = [v \in Venues |-> [s \in Symbols |-> 0]]
    /\ symbolTagged = ShippedShape
    /\ signs_file = NoFile
    /\ funding_diff_signs = load_funding_diff_signs(signs_file)
    /\ position_directions = EmptyMap
    /\ position_open_times = EmptyMap
    /\ entry_prices = EmptyMap
    /\ entry_funding_rates = EmptyMap
    /\ preferred_sides = EmptyMap
    /\ snapshots = {}
    /\ pc = "valid"
    /\ sym_idx = 1
    /\ cycle_positions = [v \in Venues |-> EmptyMap]
    /\ open_candidates = <<>>
    /\ close_candidates = <<>>
    /\ last_eval = NoEval
    /\ last_call = NoCall
    /\ call_args = None
    /\ call_result = None
    /\ legs = LegsIdle

\* self.data_manager.is_data_valid(symbol)
CheckValid ==
    /\ pc = "valid"
    /\ IsNone(valid_result)
    /\ valid_result' =
         Some(is_data_valid(latest_data, available, config.symbols[sym_idx],
                            now, max_age_seconds))
    /\ UNCHANGED <<legs, call_args, call_result, config, now, available, latest_data, venue_qty,
                   symbolTagged, funding_diff_signs, signs_file,
                   position_directions, position_open_times, entry_prices,
                   entry_funding_rates, preferred_sides, snapshots, pc, sym_idx,
                   cycle_positions, open_candidates, close_candidates,
                   last_eval, last_call>>

NextValid == CheckValid

SpecValid == InitValid /\ [][NextValid]_vars

---------------------------------------------------------------------------
(* The direction rules exercised on their own                              *)

\* the engine as constructed, outside the main loop
EngineIdle ==
    /\ config = BaseConfig
    /\ now = 1
    /\ available = AllAnswer
    /\ latest_data = [s \in ConfigSymbols(config) |-> EmptyData]
    /\ valid_result = None
    /\ venue_qty = [v \in Venues |-> [s \in Symbols |-> 0]]
    /\ symbolTagged = ShippedShape
    /\ signs_file = NoFile
    /\ funding_diff_signs = load_funding_diff_signs(signs_file)
    /\ position_directions = EmptyMap
    /\ position_open_times = EmptyMap
    /\ entry_prices = EmptyMap
    /\ entry_funding_rates = EmptyMap
    /\ preferred_sides = EmptyMap
    /\ snapshots = {}
    /\ sym_idx = 1
    /\ cycle_positions = [v \in Venues |-> EmptyMap]
    /\ open_candidates = <<>>
    /\ close_candidates = <<>>
    /\ last_eval = NoEval
    /\ last_call = NoCall

EngineVars == <<config, now, available, latest_data, valid_result, venue_qty,
                symbolTagged, funding_diff_signs, signs_file,
                position_directions, position_open_times, entry_prices,
                entry_funding_rates, preferred_sides, snapshots, sym_idx,
                cycle_positions, open_candidates, close_candidates,
                last_eval, last_call>>

\* normalized (8-hour) funding rates the rules are applied to
Rates == (0 - MaxRate)..MaxRate

InitRank ==
    /\ EngineIdle
    /\ pc = "rank"
    /\ call_args \in {Some([bp_funding |-> a, hl_funding |-> b, cx_funding |-> c]) :
                        a \in Rates, b \in Rates, c \in Rates}
    /\ call_result = None
    /\ legs = LegsIdle

\* the ranking of two venues and the sign rule on the same two rates, and
\* the three-venue rule on the three
ApplyRules ==
    /\ pc = "rank"
    /\ IsNone(call_result)
    /\ LET a == Val(call_args)
           two == check_direction_consistency(
                     1000, 1000, a.bp_funding, a.hl_funding)
       IN  call_result' =
             Some([ranked |-> RankedSides(<<"backpack", "hyperliquid">>,
                                          <<a.bp_funding, a.hl_funding>>),
                   signed |-> [bp_side |-> two.bp_side, hl_side |-> two.hl_side,
                               cx_side |-> NoSide],
                   multi |-> check_direction_consistency_multi(
                                a.bp_funding, a.hl_funding, a.cx_funding)])
    /\ UNCHANGED <<EngineVars, pc, call_args, legs>>

NextRank == ApplyRules

SpecRank == InitRank /\ [][NextRank]_vars

---------------------------------------------------------------------------
(* The funding-rate arithmetic exercised on its own                        *)

\* the three pairwise differences the scan computes from the venues' raw
\* rates: Hyperliquid's is a 1-hour rate, the others are 8-hour rates
ScanFundingDiffs(bp_funding, hl_funding, cx_funding) ==
    LET adjusted_hl_funding == hl_funding * 8
        adjusted_cx_funding == cx_funding
    IN  [bp_hl |-> calculate_funding_diff(bp_funding, hl_funding),
         cx_bp |-> calculate_funding_diff(adjusted_cx_funding, bp_funding),
         cx_hl |-> calculate_funding_diff(adjusted_cx_funding,
                                          adjusted_hl_funding),
         candidate_hl_funding |-> adjusted_hl_funding]

\* what _open_position computes from the candidate's rates: the difference
\* and sign it records, and the list of rates it ranks
OpenFundingDiffs(bp_funding, hl_funding, cx_funding) ==
    LET adjusted_hl_funding == hl_funding * 8
    IN  [recorded |-> calculate_funding_diff(bp_funding, hl_funding),
         funding_rates |-> <<bp_funding, adjusted_hl_funding, cx_funding>>]

InitNorm ==
    /\ EngineIdle
    /\ pc = "norm"
    /\ call_args \in {Some([bp_funding |-> a, hl_funding |-> b, cx_funding |-> c]) :
                        a \in Rates, b \in Rates, c \in Rates}
    /\ call_result = None
    /\ legs = LegsIdle

\* the scan's arithmetic on the raw rates, then _open_position's on the
\* candidate the scan builds
ApplyNormalization ==
    /\ pc = "norm"
    /\ IsNone(call_result)
    /\ LET a == Val(call_args)
           scan == ScanFundingDiffs(a.bp_funding, a.hl_funding, a.cx_funding)
       IN  call_result' =
             Some([scan |-> scan,
                   open |-> OpenFundingDiffs(a.bp_funding,
                                             scan.candidate_hl_funding,
                                             a.cx_funding)])
    /\ UNCHANGED <<EngineVars, pc, call_args, legs>>

NextNorm == ApplyNormalization

SpecNorm == InitNorm /\ [][NextNorm]_vars

---------------------------------------------------------------------------
(* ArbitrageEngine._analyze_orderbook exercised on its own                 *)
(* Prices, sizes and notionals are integers; a slippage is an exact        *)
(* fraction of one percent (float rounding is left out).                   *)

RECURSIVE GCD(_, _)
GCD(a, b) == IF b = 0 THEN a ELSE GCD(b, a % b)

\* the fraction n / d in lowest terms, for n >= 0 and d > 0
Ratio(n, d) == [num |-> n \div GCD(n, d), den |-> d \div GCD(n, d)]

RatLE(a, b) == a.num * b.den <= b.num * a.den

RatEq(a, b) == a.num * b.den = b.num * a.den

RatMin(a, b) == IF RatLE(a, b) THEN a ELSE b

RatMax(a, b) == IF RatLE(a, b) THEN b ELSE a

\* the value returned for an input the analysis cannot use: 0.1
DefaultSlippage == Ratio(1, 10)

\* the value the shortfall is capped at: 0.2
ShortfallCap == Ratio(1, 5)

\* the bounds of a computed slippage: 0.01 and 0.5
MinSlippage == Ratio(1, 100)

MaxSlippage == Ratio(1, 2)

\* the share of the target, in percent, below which the price walk is dropped
MinFillPercentage == 80

\* the number of levels the walk looks at
MaxLevelsChecked == 10

BookSides == {"bids", "asks"}

\* a level as a venue delivers it: {"px", "sz"}, {"price", "size"}, a list
\* [price, size, ...], or anything else; numeric is whether float() accepts
\* both fields
KnownShapes == {"px_sz", "price_size", "list"}

RawLevel(shape, numeric, price, size) == [shape |-> shape, numeric |-> numeric, price |-> price, size |-> size]

\* the conversion loop: a level of a known shape becomes [price, size], any
\* other level is skipped
RECURSIVE ConvertLevels(_)
ConvertLevels(raw) ==
    IF raw = <<>> THEN <<>>
    ELSE LET level == Head(raw)
         IN  IF level.shape \in KnownShapes
             THEN <<(<<level.price, level.size>>)>> \o ConvertLevels(Tail(raw))
             ELSE ConvertLevels(Tail(raw))

\* float() raises on a field that is not a number
ConversionRaises(raw) ==
    \E i \in 1..Len(raw) : raw[i].shape \in KnownShapes /\ ~raw[i].numeric

\* bids from the highest price down, asks from the lowest price up
PrecedesLevel(a, b, side) == IF side = "bids" THEN a[1] > b[1] ELSE a[1] < b[1]

\* sorted() is stable: a level goes behind every level it does not precede
InsertLevel(level, book, side) ==
    LET k == Cardinality({i \in 1..Len(book) : ~PrecedesLevel(level, book[i], side)})
    IN  SubSeq(book, 1, k) \o <<level>> \o SubSeq(book, k + 1, Len(book))

RECURSIVE SortLevels(_, _)
SortLevels(book, side) ==
    IF book = <<>> THEN <<>>
    ELSE InsertLevel(book[Len(book)],
                     SortLevels(SubSeq(book, 1, Len(book) - 1), side), side)

WalkStart == [amount_filled |-> 0, weighted_price |-> 0, level_price |-> 0, levels_checked |-> 0, raised |-> FALSE]

\* the walk down the sorted side from level i on; level_price * size_needed
\* is written as remaining, which it equals for level_price # 0
RECURSIVE WalkLevels(_, _, _, _)
WalkLevels(book_side, amount_usd, i, acc) ==
    IF i > Len(book_side) \/ acc.levels_checked >= MaxLevelsChecked THEN acc
    ELSE LET level_price == book_side[i][1]
             level_size == book_side[i][2]
             level_value == level_price * level_size
             remaining == amount_usd - acc.amount_filled
         IN  IF acc.amount_filled + level_value >= amount_usd
             THEN IF level_price = 0
                  THEN [acc EXCEPT !.level_price = level_price, !.raised = TRUE]
                  ELSE [acc EXCEPT !.level_price = level_price,
                                   !.weighted_price = @ + remaining,
                                   !.amount_filled = amount_usd]
             ELSE WalkLevels(book_side, amount_usd, i + 1,
                             [acc EXCEPT !.level_price = level_price,
                                         !.weighted_price = @ + level_value,
                                         !.amount_filled = @ + level_value,
                                         !.levels_checked = @ + 1])

\* the average the code divides out: weighted_price / (amount_filled / level_price)
AveragePriceByLastLevel(walk) == Ratio(walk.weighted_price * walk.level_price, walk.amount_filled)

\* |price - average_price| / price * 100
SlippagePercent(price, average_price) == Ratio(Abs(price * average_price.den - average_price.num) * 100, price * average_price.den)

ClampSlippage(slippage) == RatMax(MinSlippage, RatMin(MaxSlippage, slippage))

\* (100 - fill_percentage) / 100, capped
ShortfallSlippageUncapped(amount_filled, amount_usd) == Ratio(amount_usd - amount_filled, amount_usd)

ShortfallSlippage(amount_filled, amount_usd) == RatMin(ShortfallCap, Ratio(amount_usd - amount_filled, amount_usd))

\* the part of the analysis after the walk
AfterWalk(walk, amount_usd, price) ==
    IF walk.raised THEN DefaultSlippage
    ELSE IF /\ walk.amount_filled < amount_usd
            /\ walk.amount_filled * 100 < MinFillPercentage * amount_usd
    THEN ShortfallSlippage(walk.amount_filled, amount_usd)
    ELSE IF walk.amount_filled <= 0 THEN DefaultSlippage
    ELSE IF walk.level_price = 0 \/ price = 0 THEN DefaultSlippage
    ELSE ClampSlippage(SlippagePercent(price, AveragePriceByLastLevel(walk)))

\* orderbook is None for a missing or empty book, else Some(map from the
\* sides it has to their levels)
analyze_orderbook(orderbook, side, amount_usd, price) ==
    IF IsNone(orderbook) THEN DefaultSlippage
    ELSE IF side \notin DOMAIN Val(orderbook) THEN DefaultSlippage
    ELSE IF Val(orderbook)[side] = <<>> THEN DefaultSlippage
    ELSE IF ConversionRaises(Val(orderbook)[side]) THEN DefaultSlippage
    ELSE IF ConvertLevels(Val(orderbook)[side]) = <<>> THEN DefaultSlippage
    ELSE AfterWalk(WalkLevels(SortLevels(ConvertLevels(Val(orderbook)[side]), side),
                              amount_usd, 1, WalkStart),
                   amount_usd, price)

\* the longest book drawn level by level
MaxLevels == 2

\* the levels the books are made of: at the market price, 0.1 % and 0.2 %
\* off it, a level priced zero, a level of size zero, a level of no known
\* shape, a level float() refuses
LevelKinds ==
    {RawLevel("px_sz", TRUE, 1000, 1), RawLevel("price_size", TRUE, 999, 1),
     RawLevel("list", TRUE, 998, 2), RawLevel("list", TRUE, 0, 1),
     RawLevel("px_sz", TRUE, 999, 0),
     RawLevel("other", TRUE, 0, 0), RawLevel("list", FALSE, 0, 0)}

\* a book one level deeper than the walk looks
DeepBook == [i \in 1..(MaxLevelsChecked + 1) |-> RawLevel("list", TRUE, 999, 1)]

Books == UNION {[1..n -> LevelKinds] : n \in 0..MaxLevels} \cup {DeepBook}

Orderbooks == {None} \cup {Some([s \in {side} |-> book]) : side \in BookSides, book \in Books}

AmountsUsd == {0, 1000, 1200, 13000}

MarketPrices == {0, 1000}

InitBook ==
    /\ EngineIdle
    /\ pc = "book"
    /\ call_args \in {Some([orderbook |-> o, side |-> s, amount_usd |-> a, price |-> p]) :
                        o \in Orderbooks, s \in BookSides, a \in AmountsUsd, p \in MarketPrices}
    /\ call_result = None
    /\ legs = LegsIdle

AnalyzeOrderbook ==
    /\ pc = "book"
    /\ IsNone(call_result)
    /\ LET a == Val(call_args)
       IN  call_result' = Some(analyze_orderbook(a.orderbook, a.side, a.amount_usd, a.price))
    /\ UNCHANGED <<EngineVars, pc, call_args, legs>>

NextBook == AnalyzeOrderbook

SpecBook == InitBook /\ [][NextBook]_vars

---------------------------------------------------------------------------
(* The engine started on an account that already holds positions           *)

\* net quantities the venues report for BTC when the engine starts
HeldQuantities == [Venues -> {-10, 0, 10}]

InitHeld ==
    /\ config = BaseConfig
    /\ available = AllAnswer
    /\ symbolTagged = ShippedShape
    /\ now = 1
    /\ latest_data = [s \in ConfigSymbols(config) |-> EmptyData]
    /\ valid_result = None
    /\ \E q \in HeldQuantities :
         venue_qty = [v \in Venues |->
                        [s \in Symbols |-> IF s = "BTC" THEN q[v] ELSE 0]]
    /\ signs_file = NoFile
    /\ funding_diff_signs = load_funding_diff_signs(signs_file)
    /\ position_directions = EmptyMap
    /\ position_open_times = EmptyMap
    /\ entry_prices = EmptyMap
    /\ entry_funding_rates = EmptyMap
    /\ preferred_sides = EmptyMap
    /\ snapshots = {}
    /\ pc = "start"
    /\ sym_idx = 1
    /\ cycle_positions = [v \in Venues |-> EmptyMap]
    /\ open_candidates = <<>>
    /\ close_candidates = <<>>
    /\ last_eval = NoEval
    /\ last_call = NoCall
    /\ call_args = None
    /\ call_result = None
    /\ legs = LegsIdle

SpecHeld == InitHeld /\ [][Next]_vars

---------------------------------------------------------------------------
(* The process is stopped and started again                                *)

\* what happened to the sign file while the process was down
FileFates == {"kept", "removed", "spoiled"}

FileAfter(file, fate) ==
    IF fate = "removed" THEN NoFile
    ELSE IF fate = "spoiled" THEN Unreadable
    ELSE file

\* the sign maps an earlier process may have saved
SavedSignMaps == {EmptyMap} \cup {Put(EmptyMap, "BTC", n) : n \in {-1, 0, 1}}

InitRestart ==
    /\ config = BaseConfig
    /\ available = AllAnswer
    /\ symbolTagged = ShippedShape
    /\ now = 1
    /\ latest_data = [s \in ConfigSymbols(config) |-> EmptyData]
    /\ valid_result = None
    /\ venue_qty = [v \in Venues |-> [s \in Symbols |-> 0]]
    /\ signs_file \in {NoFile, Unreadable}
                      \cup {save_funding_diff_signs(m, NoFile, TRUE) : m \in SavedSignMaps}
    /\ funding_diff_signs = load_funding_diff_signs(signs_file)
    /\ position_directions = EmptyMap
    /\ position_open_times = EmptyMap
    /\ entry_prices = EmptyMap
    /\ entry_funding_rates = EmptyMap
    /\ preferred_sides = EmptyMap
    /\ snapshots = {}
    /\ pc = "start"
    /\ sym_idx = 1
    /\ cycle_positions = [v \in Venues |-> EmptyMap]
    /\ open_candidates = <<>>
    /\ close_candidates = <<>>
    /\ last_eval = NoEval
    /\ last_call = NoCall
    /\ call_args = None
    /\ call_result = None
    /\ legs = LegsIdle

\* The process is interrupted in the sleep between two cycles and a new one
\* is started some time later. ArbitrageEngine.__init__ of the new process: the in-memory
\* maps start empty, the sign map is loaded from the file; the venues and the
\* files on disk are what the old process left
Restart ==
    /\ pc \in {"sleep", "pause"}
    /\ now < MaxTime
    /\ now' = now + 1
    /\ \E fate \in FileFates :
         /\ signs_file' = FileAfter(signs_file, fate)
         /\ funding_diff_signs' = load_funding_diff_signs(signs_file')
    /\ position_directions' = EmptyMap
    /\ position_open_times' = EmptyMap
    /\ entry_prices' = EmptyMap
    /\ entry_funding_rates' = EmptyMap
    /\ preferred_sides' = EmptyMap
    /\ latest_data' = [s \in ConfigSymbols(config) |-> EmptyData]
    /\ pc' = "start"
    /\ sym_idx' = 1
    /\ cycle_positions' = [v \in Venues |-> EmptyMap]
    /\ open_candidates' = <<>>
    /\ close_candidates' = <<>>
    /\ last_eval' = NoEval
    /\ last_call' = NoCall
    /\ UNCHANGED <<legs, call_args, call_result, config, available,
                   valid_result, venue_qty, symbolTagged, snapshots>>

NextRestart == Next \/ Restart

SpecRestart == InitRestart /\ [][NextRestart]_vars

---------------------------------------------------------------------------
(* Two configured symbols: the batches of one cycle                        *)

BatchConfig ==
    [BaseConfig EXCEPT !.symbols = <<"BTC", "ETH">>,
                       !.trading_pairs = [s \in {"BTC", "ETH"} |-> PairConfig]]

CheckedBatchConfig ==
    [CheckedConfig EXCEPT !.symbols = <<"BTC", "ETH">>,
                          !.trading_pairs = [s \in {"BTC", "ETH"} |-> PairConfig]]

\* max_positions_count 1: one held symbol reaches the cap
CappedBatchConfig == [BatchConfig EXCEPT !.max_positions_count = 1]

\* what the account holds when the engine starts: nothing, or a hedged
\* pair on Backpack and Hyperliquid, of ETH or of both symbols
BatchQuantities ==
    LET pair(q, T) == [v \in Venues |->
                         [s \in Symbols |->
                            IF s \notin T \/ v = "coinex" THEN 0
                            ELSE IF v = "backpack" THEN q ELSE 0 - q]]
    IN  {pair(0, {})} \cup {pair(q, T) : q \in {-10, 10}, T \in {{"ETH"}, {"BTC", "ETH"}}}

InitBatch ==
    /\ config \in {BatchConfig, CheckedBatchConfig, CappedBatchConfig}
    /\ available = [v \in Venues |-> v # "coinex"]
    /\ symbolTagged \in {ShippedShape, TaggedShape}
    /\ now = 1
    /\ \E btc \in FundingOffers, eth \in FundingOffers :
         latest_data =
            WithFunding(WithFunding([s \in {"BTC", "ETH"} |-> EmptyData],
                                    available, "BTC", btc, now),
                        available, "ETH", eth, now)
    /\ valid_result = None
    /\ venue_qty \in BatchQuantities
    /\ signs_file = NoFile
    /\ funding_diff_signs = load_funding_diff_signs(signs_file)
    /\ position_directions = EmptyMap
    /\ position_open_times = EmptyMap
    /\ entry_prices = EmptyMap
    /\ entry_funding_rates = EmptyMap
    /\ preferred_sides = EmptyMap
    /\ snapshots = {}
    /\ pc = "start"
    /\ sym_idx = 1
    /\ cycle_positions = [v \in Venues |-> EmptyMap]
    /\ open_candidates = <<>>
    /\ close_candidates = <<>>
    /\ last_eval = NoEval
    /\ last_call = NoCall
    /\ call_args = None
    /\ call_result = None
    /\ legs = LegsIdle

\* one cycle of the main loop, the funding loop having delivered the rates
NextBatch ==
    \/ CycleStart
    \/ Collect
    \/ Open
    \/ Close
    \/ Pause

SpecBatch == InitBatch /\ [][NextBatch]_vars

---------------------------------------------------------------------------
(* One symbol, every open policy: one cycle                                *)

\* open_conditions.condition_type: the four policies and a value that is
\* none of them
ConditionTypes == {"any", "all", "funding_only", "price_only", "both"}

\* <<min_price_diff_percent, max_price_diff_percent>>, units of 0.01 %
PriceBands == {<<20, 100>>, <<60, 100>>, <<20, 40>>}

\* min_funding_diff, units of 1e-6
MinFundingDiffs == {10, 20}

PolicyConfigs ==
    {[BaseConfig EXCEPT !.open_conditions.condition_type = ct,
                        !.open_conditions.min_price_diff_percent = band[1],
                        !.open_conditions.max_price_diff_percent = band[2],
                        !.open_conditions.min_funding_diff = mf] :
        ct \in ConditionTypes, band \in PriceBands, mf \in MinFundingDiffs}

\* what the venues hold for BTC when the cycle starts
PolicyQuantities ==
    {[v \in Venues |-> [s \in Symbols |-> 0]],
     [v \in Venues |-> [s \in Symbols |->
        IF s = "BTC" /\ v = "backpack" THEN 10
        ELSE IF s = "BTC" /\ v = "hyperliquid" THEN -10 ELSE 0]]}

InitPolicy ==
    /\ config \in PolicyConfigs
    /\ available = AllAnswer
    /\ symbolTagged = ShippedShape
    /\ now = 1
    /\ \E btc \in FundingOffers :
         latest_data = WithFunding([s \in {"BTC"} |-> EmptyData],
                                   available, "BTC", btc, now)
    /\ valid_result = None
    /\ venue_qty \in PolicyQuantities
    /\ signs_file = NoFile
    /\ funding_diff_signs = load_funding_diff_signs(signs_file)
    /\ position_directions = EmptyMap
    /\ position_open_times = EmptyMap
    /\ entry_prices = EmptyMap
    /\ entry_funding_rates = EmptyMap
    /\ preferred_sides = EmptyMap
    /\ snapshots = {}
    /\ pc = "start"
    /\ sym_idx = 1
    /\ cycle_positions = [v \in Venues |-> EmptyMap]
    /\ open_candidates = <<>>
    /\ close_candidates = <<>>
    /\ last_eval = NoEval
    /\ last_call = NoCall
    /\ call_args = None
    /\ call_result = None
    /\ legs = LegsIdle

SpecPolicy == InitPolicy /\ [][NextBatch]_vars

---------------------------------------------------------------------------
(* One cycle of the main loop with the refresh task stepping at every      *)
(* await                                                                   *)

\* what one adapter call brings back for one symbol
OnlyVenue(v, rate) == [w \in Venues |-> IF w = v THEN Some(rate) ELSE None]

RefreshRates(v) == {Val(offer[v]) : offer \in FundingOffers}

\* a cycle begins one tick after a refresh filled the store
InitRefresh ==
    /\ config = BaseConfig
    /\ available = AllAnswer
    /\ symbolTagged = ShippedShape
    /\ now = 1
    /\ \E btc \in FundingOffers :
         latest_data = WithFunding([s \in {"BTC"} |-> EmptyData],
                                   available, "BTC", btc, now - 1)
    /\ valid_result = None
    /\ venue_qty \in PolicyQuantities
    /\ signs_file = NoFile
    /\ funding_diff_signs = load_funding_diff_signs(signs_file)
    /\ position_directions = EmptyMap
    /\ position_open_times = EmptyMap
    /\ entry_prices = EmptyMap
    /\ entry_funding_rates = EmptyMap
    /\ preferred_sides = EmptyMap
    /\ snapshots = {}
    /\ pc = "start"
    /\ sym_idx = 1
    /\ cycle_positions = [v \in Venues |-> EmptyMap]
    /\ open_candidates = <<>>
    /\ close_candidates = <<>>
    /\ last_eval = NoEval
    /\ last_call = NoCall
    /\ call_args = None
    /\ call_result = None
    /\ legs = LegsIdle

\* an awaited get_all_funding_rates or get_funding_rate call of one venue
\* has returned a rate for a symbol: the rate and the timestamp of the slot
\* are written before the task awaits again
RefreshSegment ==
    /\ \E s \in DOMAIN latest_data, v \in Venues :
         /\ available[v]
         /\ \E rate \in RefreshRates(v) :
              latest_data' = WithFunding(latest_data, available, s, OnlyVenue(v, rate), now)
         /\ latest_data' # latest_data
    /\ UNCHANGED <<legs, call_args, call_result, config, now, available, valid_result, venue_qty,
                   symbolTagged, funding_diff_signs, signs_file,
                   position_directions, position_open_times, entry_prices,
                   entry_funding_rates, preferred_sides, snapshots, pc, sym_idx,
                   cycle_positions, open_candidates, close_candidates,
                   last_eval, last_call>>

\* one cycle of the main loop, the refresh task stepping in between
NextRefresh ==
    \/ CycleStart
    \/ Collect
    \/ Open
    \/ Close
    \/ Pause
    \/ RefreshSegment

SpecRefresh == InitRefresh /\ [][NextRefresh]_vars

---------------------------------------------------------------------------
(* DataManager.update_funding_rates followed call by call                  *)

\* what the get_all_funding_rates call of each venue returns: the
\* configured symbols it has a rate for ({}: it failed or returned nothing)
BulkAnswers == [Venues -> SUBSET {"BTC", "ETH"}]

\* variant: the per-symbol call is made for every symbol the bulk call did
\* not return
SingleCallDueForUnreturned(store, bulk, v, s) == s \notin bulk[v]

\* "self.latest_data[symbol][venue]["funding_rate"] is None": the
\* per-symbol call is made for a slot that holds no rate after the bulk
\* calls
SingleCallDue(store, bulk, v, s) == IsNone(store[s][v].funding_rate)

\* One run of update_funding_rates.  bulk: the answers of the bulk calls;
\* answered: whether the per-symbol calls return a rate; rate: the rate the
\* venues quote.  The result is the store and the per-symbol calls made.
update_funding_rates(store, avail, symbols, bulk, answered, rate, t) ==
    LET Written(s, v, written) ==
            IF written
            THEN [store[s][v] EXCEPT !.funding_rate = Some(rate),
                                     !.funding_timestamp = Some(t)]
            ELSE store[s][v]
        store1 == [s \in DOMAIN store |->
                     [k \in DOMAIN store[s] |->
                        IF k \in Venues
                        THEN Written(s, k, avail[k] /\ s \in bulk[k])
                        ELSE store[s][k]]]
        need_traditional_update ==
            \E i \in 1..Len(symbols), v \in Venues :
                IsNone(store1[symbols[i]][v].funding_rate)
        \* the Hyperliquid and Backpack calls sit in "for symbol in
        \* self.symbols" under "if need_traditional_update"
        looped == {<<v, symbols[i]>> :
                      v \in {"hyperliquid", "backpack"}, i \in 1..Len(symbols)}
        calls12 == IF need_traditional_update
                   THEN {c \in looped :
                            avail[c[1]] /\ SingleCallDue(store1, bulk, c[1], c[2])}
                   ELSE {}
        \* the CoinEx block follows the loops and reads self.coinex_symbols_map,
        \* an attribute that is never assigned: AttributeError, caught, no call
        calls3 == {}
        calls == calls12 \cup calls3
    IN  [store |-> [s \in DOMAIN store |->
                      [k \in DOMAIN store[s] |->
                         IF k \in Venues /\ <<k, s>> \in calls /\ answered
                         THEN [store1[s][k] EXCEPT !.funding_rate = Some(rate),
                                                   !.funding_timestamp = Some(t)]
                         ELSE store1[s][k]]],
         calls |-> calls]

InitFunding ==
    /\ config = BatchConfig
    /\ now = 1
    /\ available \in AdapterSets
    /\ latest_data = [s \in ConfigSymbols(config) |-> EmptyData]
    /\ valid_result = None
    /\ venue_qty = [v \in Venues |-> [s \in Symbols |-> 0]]
    /\ symbolTagged = ShippedShape
    /\ signs_file = NoFile
    /\ funding_diff_signs = load_funding_diff_signs(signs_file)
    /\ position_directions = EmptyMap
    /\ position_open_times = EmptyMap
    /\ entry_prices = EmptyMap
    /\ entry_funding_rates = EmptyMap
    /\ preferred_sides = EmptyMap
    /\ snapshots = {}
    /\ sym_idx = 1
    /\ cycle_positions = [v \in Venues |-> EmptyMap]
    /\ open_candidates = <<>>
    /\ close_candidates = <<>>
    /\ last_eval = NoEval
    /\ last_call = NoCall
    /\ pc = "funding"
    /\ call_args = None
    /\ call_result = None
    /\ legs = LegsIdle

\* one turn of _update_funding_rates_loop
UpdateFundingRates ==
    /\ pc = "funding"
    /\ \E bulk \in BulkAnswers, answered \in BOOLEAN :
         LET Done(r) ==
                /\ latest_data' = r.store
                /\ call_result' = Some([bulk |-> bulk, calls |-> r.calls])
         IN  Done(update_funding_rates(latest_data, available, config.symbols,
                                       bulk, answered, 8, now))
    /\ UNCHANGED <<legs, call_args, config, now, available, valid_result,
                   venue_qty, symbolTagged, funding_diff_signs, signs_file,
                   position_directions, position_open_times, entry_prices,
                   entry_funding_rates, preferred_sides, snapshots, pc, sym_idx,
                   cycle_positions, open_candidates, close_candidates,
                   last_eval, last_call>>

NextFunding == UpdateFundingRates

SpecFunding == InitFunding /\ [][NextFunding]_vars

---------------------------------------------------------------------------
(* One handler call followed leg by leg                                    *)

\* the sides a handler call can be entered with.  _open_position: Backpack
\* and Hyperliquid always carry a side (the sign rule, or the stored
\* ranking with "NONE" for the middle venue), CoinEx may carry none.
\* _close_position: the sides of the position record built by the scan.
LegSides ==
    {[backpack |-> b, hyperliquid |-> h, coinex |-> c] :
        b \in {"BUY", "SELL", "NONE"}, h \in {"BUY", "SELL", "NONE"},
        c \in {NoSide, "BUY", "SELL", "NONE"}}

\* "if bp_side is not None: asyncio.create_task(place_order(...))"; the
\* CoinEx call is built only when its keywords bind, else the TypeError is
\* caught and no task exists
TaskCreated(sides, v) ==
    /\ sides[v] # NoSide
    /\ v = "coinex" => CallBinds(OrderCallKeywords, CoinExOrderParameters)

\* variant: gather returns as soon as one order has been answered
GatherReturnsOnFirst(task) == \E v \in Venues : task[v] = "done"

\* "order_results = await asyncio.gather(*order_tasks,
\* return_exceptions=True)" returns when every task has ended
GatherReturns(task) == \A v \in Venues : task[v] \in {"none", "done"}

InitLegs ==
    /\ EngineIdle
    /\ pc = "legs"
    /\ call_args = None
    /\ call_result = None
    /\ \E h \in {"open", "close"}, sd \in LegSides :
         /\ h = "close" => sd["coinex"] = NoSide /\ sd["backpack"] # "NONE"
                                                 /\ sd["hyperliquid"] # "NONE"
         /\ legs = [LegsIdle EXCEPT !.handler = h, !.phase = "create", !.sides = sd]

\* _open_position creates its order tasks one after the other without
\* awaiting in between.  _close_position reads position["cx_side"], a key
\* the scan's position record does not have: the KeyError takes it to its
\* except clause before any task exists.
CreateTasks ==
    /\ pc = "legs"
    /\ legs.phase = "create"
    /\ IF legs.handler = "close"
          /\ ClosePositionOutcome([bp_side |-> legs.sides["backpack"],
                                   hl_side |-> legs.sides["hyperliquid"],
                                   bp_size |-> 10, hl_size |-> 10]) = "exception"
       THEN legs' = [legs EXCEPT !.phase = "raised"]
       ELSE legs' = [legs EXCEPT
                        !.phase = "gather",
                        !.task = [v \in Venues |->
                                    IF TaskCreated(legs.sides, v) THEN "created"
                                    ELSE "none"]]
    /\ UNCHANGED <<EngineVars, pc, call_args, call_result>>

\* the event loop runs a created task: place_order sends its request
TaskStart ==
    /\ pc = "legs"
    /\ legs.phase = "gather"
    /\ \E v \in Venues :
         /\ legs.task[v] = "created"
         /\ legs' = [legs EXCEPT !.task[v] = "running"]
    /\ UNCHANGED <<EngineVars, pc, call_args, call_result>>

\* how a place_order call ends: it returns an answer, or it raises (a
\* timeout, a refused connection)
OrderEndings == {"answered", "raised"}

\* place_order returns or raises: the task ends
TaskEnd ==
    /\ pc = "legs"
    /\ legs.phase = "gather"
    /\ \E v \in Venues, ending \in OrderEndings :
         /\ legs.task[v] = "running"
         /\ legs' = [legs EXCEPT
                        !.task[v] = "done",
                        !.raised = IF ending = "raised" THEN @ \cup {v} ELSE @]
    /\ UNCHANGED <<EngineVars, pc, call_args, call_result>>

\* variant: gather re-raises the first exception of a task
GatherReRaises(raised) == raised # {}

\* "return_exceptions=True": an exception of a task is an element of
\* order_results, gather itself does not raise
GatherRaises(raised) == FALSE

\* gather returns; bp_result, hl_result and cx_result are taken from
\* order_results and interpreted: a result that is an Exception makes
\* bp_success / hl_success / cx_success False
ReadResults ==
    /\ pc = "legs"
    /\ legs.phase = "gather"
    /\ GatherReturns(legs.task)
    /\ IF GatherRaises(legs.raised)
       THEN legs' = [legs EXCEPT !.phase = "raised"]
       ELSE legs' = [legs EXCEPT !.phase = "fetch",
                                 !.failed = legs.raised,
                                 !.read = {v \in Venues : legs.task[v] = "done"}]
    /\ UNCHANGED <<EngineVars, pc, call_args, call_result>>

\* "await asyncio.sleep(3)" and the get_positions calls after the orders
FetchPostPositions ==
    /\ pc = "legs"
    /\ legs.phase = "fetch"
    /\ legs' = [legs EXCEPT !.phase = "judge", !.snapshot = TRUE]
    /\ UNCHANGED <<EngineVars, pc, call_args, call_result>>

\* the changed flags are computed and the success test is taken
JudgeLegs ==
    /\ pc = "legs"
    /\ legs.phase = "judge"
    /\ legs' = [legs EXCEPT !.phase = "returned", !.decided = TRUE]
    /\ UNCHANGED <<EngineVars, pc, call_args, call_result>>

NextLegs ==
    \/ CreateTasks
    \/ TaskStart
    \/ TaskEnd
    \/ ReadResults
    \/ FetchPostPositions
    \/ JudgeLegs

SpecLegs == InitLegs /\ [][NextLegs]_vars

---------------------------------------------------------------------------
(* Properties                                                              *)

EntryMaps == <<position_directions, position_open_times, entry_prices,
               entry_funding_rates>>

\* the legs of the last call that carry a side
RequiredLegs(call) ==
    {v \in Venues :
        \/ v = "backpack" /\ call.sides.bp_side # NoSide
        \/ v = "hyperliquid" /\ call.sides.hl_side # NoSide
        \/ v = "coinex" /\ call.sides.cx_side # NoSide}

\* C1: a step of _open_position writes the symbol's entry in
\* position_directions, position_open_times, entry_prices and
\* entry_funding_rates exactly when every leg with a side was judged filled
\* and at least two legs carry a side; otherwise it leaves the four maps
\* as they were.
C1_EntryRecordIffAllLegsFilled ==
    [][pc = "open" =>
         LET call == last_call'
             s == call.symbol
             all_filled == /\ call.changed = RequiredLegs(call)
                           /\ Cardinality(RequiredLegs(call)) >= 2
         IN  IF all_filled
             THEN /\ s \in DOMAIN position_directions'
                  /\ position_directions'[s] = call.sides
                  /\ s \in DOMAIN position_open_times'
                  /\ position_open_times'[s] = now
                  /\ s \in DOMAIN entry_prices'
                  /\ s \in DOMAIN entry_funding_rates'
             ELSE UNCHANGED EntryMaps]_vars

\* a three-leg open with two legs judged filled has left no entry record
C1_Witness ==
    /\ last_call.op = "open"
    /\ Cardinality(RequiredLegs(last_call)) = 3
    /\ last_call.changed = {"backpack", "hyperliquid"}
    /\ last_call.symbol \notin DOMAIN position_open_times
    /\ last_call.symbol \notin DOMAIN entry_prices

\* a message that tells the operator about the outcome: a warning or error
\* log, a display message or a notification, naming the symbol.  (The info
\* logs of the positions before and after are written on every outcome.)
OutcomeSignal(m) ==
    /\ m.names_symbol
    /\ m.level \in {"warning", "error"} \/ m.channel \in {"display", "alert"}

C3_NoOpenWhileHeld ==
    /\ \A i \in 1..Len(open_candidates) :
         \A v \in Venues : open_candidates[i].symbol \notin DOMAIN cycle_positions[v]
    /\ last_eval.held # {} => ~last_eval.open

\* a scan of a held symbol whose differentials would have produced an
\* open candidate
C3_Witness ==
    /\ last_eval.ready
    /\ ~last_eval.open
    /\ last_eval.held # {}
    /\ last_eval.would_open
    /\ Len(open_candidates) = 0

\* C4: no close candidate is listed for a symbol whose recorded open time
\* is less than min_position_time ago.
C4_NoCloseBeforeMinTime ==
    \A i \in 1..Len(close_candidates) :
        LET s == close_candidates[i].symbol
        IN  s \in DOMAIN position_open_times
              => now - position_open_times[s]
                   >= config.close_conditions.min_position_time

\* a scan that refused a close only because of the holding time
C4_Witness ==
    /\ last_eval.kind = "too_early"
    /\ last_eval.would_close
    /\ ~last_eval.close
    /\ Len(close_candidates) = 0

C6_SignOnlyOnSuccess ==
    [][(pc = "open" /\ ~last_call'.success)
          => UNCHANGED <<funding_diff_signs, signs_file>>]_vars

\* C7: a close attempt in which some attempted leg was not confirmed
\* closed deletes nothing from the entry maps, the sign map or the sign
\* file.
C7_FailedCloseKeepsRecords ==
    [][(pc = "close" /\ last_call'.changed # RequiredLegs(last_call'))
          => /\ UNCHANGED EntryMaps
             /\ UNCHANGED <<funding_diff_signs, signs_file>>]_vars

\* a close attempt that ended in an exception while the entry record and
\* the sign entry of the symbol exist
C7_Witness ==
    /\ last_call.op = "close"
    /\ last_call.outcome = "exception"
    /\ last_call.symbol \in DOMAIN position_open_times
    /\ last_call.symbol \in DOMAIN position_directions
    /\ last_call.symbol \in DOMAIN entry_prices
    /\ last_call.symbol \in DOMAIN entry_funding_rates
    /\ last_call.symbol \in DOMAIN funding_diff_signs

\* C8: the scan calls the close-condition check for every symbol with a
\* position on at least one venue (whenever the scan has valid data).
C8_HeldSymbolCloseChecked ==
    (last_eval.ready /\ last_eval.held # {}) => last_eval.close_checked

\* C9: every open that submits orders submits exactly one BUY and one SELL,
\* on different venues, of equal size.
C9_HedgedOrders ==
    (last_call.op = "open" /\ last_call.submitted # {})
        => /\ Cardinality(last_call.submitted) = 2
           /\ {o.side : o \in last_call.submitted} = {"BUY", "SELL"}
           /\ \A o1, o2 \in last_call.submitted :
                 /\ o1.size = o2.size
                 /\ (o1.venue = o2.venue => o1 = o2)

\* a venue passes: its four fields are present and both ages are at most
\* max_age_seconds
Passes(v) ==
    LET d == latest_data[config.symbols[sym_idx]][v]
    IN  /\ d.price # None /\ d.funding_rate # None
        /\ d.price_timestamp # None /\ d.funding_timestamp # None
        /\ now - d.price_timestamp[1] <= max_age_seconds
        /\ now - d.funding_timestamp[1] <= max_age_seconds

\* C10: is_data_valid is False with no adapter, the single venue's check
\* with one adapter, and with two or three adapters True exactly when at
\* least two venues pass.
C10_ValidityRule ==
    valid_result # None =>
        LET adapters == {v \in Venues : available[v]}
            passing == {v \in adapters : Passes(v)}
        IN  valid_result[1] =
              IF adapters = {} THEN FALSE
              ELSE IF Cardinality(adapters) = 1 THEN passing = adapters
              ELSE Cardinality(passing) >= 2

\* three adapters, exactly two venues pass, one of them at the age limit,
\* and the answer is True
C10_Witness ==
    /\ valid_result = Some(TRUE)
    /\ \A v \in Venues : available[v]
    /\ Cardinality({v \in Venues : Passes(v)}) = 2
    /\ \E v \in Venues :
         /\ Passes(v)
         /\ now - latest_data[config.symbols[sym_idx]][v].price_timestamp[1]
              = max_age_seconds

\* C11: for two venues with non-zero normalized rates of any signs, the
\* ranking (lowest rate buys, highest rate sells) gives the sides of the
\* sign rule of check_direction_consistency, and the two sides are opposite
C11_RankingMatchesSignRule ==
    (pc = "rank" /\ ~IsNone(call_result)
        /\ Val(call_args).bp_funding # 0 /\ Val(call_args).hl_funding # 0)
    => LET r == Val(call_result)
       IN  /\ r.ranked.bp_side = r.signed.bp_side
           /\ r.ranked.hl_side = r.signed.hl_side
           /\ {r.ranked.bp_side, r.ranked.hl_side} = {"BUY", "SELL"}

\* C12: under funding_only with two venues, the open of a candidate places
\* the SELL leg on the venue with the higher normalized rate and the BUY leg
\* on the venue with the lower one
C12_ShortOnHigherRate ==
    \A i \in 1..Len(open_candidates) :
        LET c == open_candidates[i]
            hi == IF c.bp_funding > c.hl_funding THEN "backpack" ELSE "hyperliquid"
            lo == IF c.bp_funding > c.hl_funding THEN "hyperliquid" ELSE "backpack"
        IN  (/\ last_call.op = "open" /\ last_call.symbol = c.symbol
             /\ ~last_call.returned_early
             /\ config.open_conditions.condition_type = "funding_only"
             /\ ~available["coinex"]
             /\ c.funding_diff >= config.open_conditions.min_funding_diff)
            => /\ [venue |-> hi, side |-> "SELL", size |-> last_call.size]
                    \in last_call.submitted
               /\ [venue |-> lo, side |-> "BUY", size |-> last_call.size]
                    \in last_call.submitted

\* difference and sign of two rates that are both 8-hour rates
NormalizedDiff(x, y) ==
    [diff |-> Abs(x - y),
     sign |-> IF x > y THEN 1 ELSE IF x < y THEN -1 ELSE 0]

\* C13: every difference, sign and ranked rate of the scan and of
\* _open_position is computed from rates rescaled to 8 hours exactly once
\* (Hyperliquid times 8, Backpack and CoinEx unchanged)
C13_NormalizedOnce ==
    (pc = "norm" /\ ~IsNone(call_result))
    => LET a == Val(call_args)
           r == Val(call_result)
           bp == a.bp_funding
           hl == a.hl_funding * 8
           cx == a.cx_funding
       IN  /\ r.scan.bp_hl = NormalizedDiff(bp, hl)
           /\ r.scan.cx_bp = NormalizedDiff(cx, bp)
           /\ r.scan.cx_hl = NormalizedDiff(cx, hl)
           /\ r.open.recorded = NormalizedDiff(bp, hl)
           /\ r.open.funding_rates = <<bp, hl, cx>>

\* C17: when every leg an open submitted is a live position on its venue,
\* the symbol has its entry record (all four maps) afterwards
C17_FilledLegsHaveRecord ==
    (/\ last_call.op = "open" /\ last_call.submitted # {}
     /\ \A o \in last_call.submitted : venue_qty[o.venue][last_call.symbol] # 0)
    => /\ last_call.symbol \in DOMAIN position_directions
       /\ last_call.symbol \in DOMAIN position_open_times
       /\ last_call.symbol \in DOMAIN entry_prices
       /\ last_call.symbol \in DOMAIN entry_funding_rates

\* the side a call assigned to a venue
SideAt(call, v) ==
    IF v = "backpack" THEN call.sides.bp_side
    ELSE IF v = "hyperliquid" THEN call.sides.hl_side
    ELSE call.sides.cx_side

\* C20: an open submits no order on a venue that was assigned neither BUY
\* nor SELL, and counts as required only the venues assigned BUY or SELL
C20_NoOrderWithoutSide ==
    (last_call.op = "open" /\ ~last_call.returned_early)
    => LET sideless == {v \in Venues : SideAt(last_call, v) \notin {"BUY", "SELL"}}
       IN  /\ \A o \in last_call.submitted : o.venue \notin sideless
           /\ last_call.required = Cardinality(Venues \ sideless)

\* C18: position_directions changes only in an open that was judged
\* successful (the symbol's record is created) or in a close that was
\* confirmed on every leg (the symbol's record is deleted); every other
\* step leaves it as it was
C18_DirectionRecordOnlyByOpenClose ==
    [][position_directions' # position_directions
         => \/ /\ pc = "open" /\ last_call'.success
               /\ position_directions' =
                    Put(position_directions, last_call'.symbol, last_call'.sides)
            \/ /\ pc = "close" /\ last_call'.success
               /\ position_directions' =
                    Del(position_directions, last_call'.symbol)]_vars

\* the direction ranking the close check holds the legs against: the
\* 2-venue rule on the two venues that hold the position, the 3-venue
\* ranking when all three hold it
CurrentRanking(data, held) ==
    LET bp == data["backpack"]
        hl == data["hyperliquid"]
        cx == data["coinex"]
        Pair(a, b, r) == [is_consistent |-> r.is_consistent,
                          side |-> [v \in {a, b} |-> IF v = a THEN r.bp_side ELSE r.hl_side]]
        Multi(r) == [is_consistent |-> r.is_consistent,
                     side |-> [backpack |-> r.bp_side, hyperliquid |-> r.hl_side,
                               coinex |-> r.cx_side]]
    IN  IF held = Venues
        THEN Multi(check_direction_consistency_multi(
                 Val(bp.funding_rate), Val(hl.funding_rate) * 8, Val(cx.funding_rate)))
        ELSE IF held = {"backpack", "hyperliquid"}
        THEN Pair("backpack", "hyperliquid", check_direction_consistency(
                 Val(bp.price), Val(hl.price),
                 Val(bp.funding_rate), Val(hl.funding_rate) * 8))
        ELSE IF held = {"backpack", "coinex"}
        THEN Pair("backpack", "coinex", check_direction_consistency(
                 Val(bp.price), Val(cx.price),
                 Val(bp.funding_rate), Val(cx.funding_rate)))
        ELSE Pair("hyperliquid", "coinex", check_direction_consistency(
                 Val(hl.price), Val(cx.price),
                 Val(hl.funding_rate) * 8, Val(cx.funding_rate)))

\* C19: the scan produces a close candidate only when every venue that
\* reports the position (two or three) holds it on the side opposite to the
\* current ranking's side for that venue and the ranking is consistent
C19_CloseOnlyWhenReversed ==
    last_eval.close
    => LET s == last_eval.symbol
           cur == CurrentRanking(latest_data[s], last_eval.held)
       IN  /\ Cardinality(last_eval.held) >= 2
           /\ cur.is_consistent
           /\ \A v \in last_eval.held :
                 Reversed(cycle_positions[v][s].side, cur.side[v])

\* C14: within a cycle the open candidates are executed one per step in
\* list order, the close batch starts only when the last open candidate
\* has been executed (or there is none), the close candidates follow in
\* list order, and no open is executed after a close
C14_OpensBeforeCloses ==
    [][/\ pc = "open"
          => /\ last_call'.op = "open"
             /\ last_call'.symbol = open_candidates[sym_idx].symbol
             /\ IF sym_idx < Len(open_candidates)
                THEN pc' = "open" /\ sym_idx' = sym_idx + 1
                ELSE /\ pc' \in {"close", "sleep"}
                     /\ pc' = "close" <=> Len(close_candidates) > 0
                     /\ sym_idx' = 1
       /\ pc = "close"
          => /\ last_call'.op = "close"
             /\ last_call'.symbol = close_candidates[sym_idx].symbol
             /\ IF sym_idx < Len(close_candidates)
                THEN pc' = "close" /\ sym_idx' = sym_idx + 1
                ELSE pc' = "sleep"
       /\ (pc = "collect" /\ pc' = "close") => Len(open_candidates') = 0
       /\ (pc = "collect" /\ pc' = "open") => sym_idx' = 1]_vars

\* the open batch has just ended and a close candidate is waiting
C14_Witness ==
    /\ pc = "close"
    /\ last_call.op = "open"
    /\ Len(open_candidates) >= 1
    /\ last_call.symbol = open_candidates[Len(open_candidates)].symbol
    /\ Len(close_candidates) >= 1

\* C15: while a handler call is followed, no leg result has been read as
\* long as a created order task has not started, and the success decision
\* exists only when every created task has ended, its result has been
\* read and the positions after the orders have been fetched
C15_AllLegsBeforeResults ==
    pc = "legs"
    => /\ legs.read # {} => \A v \in Venues : legs.task[v] # "created"
       /\ legs.decided
            => /\ legs.snapshot
               /\ \A v \in Venues : legs.task[v] \in {"none", "done"}
               /\ legs.read = {v \in Venues : legs.task[v] = "done"}

\* an open with two leg orders has been decided
C15_Witness ==
    /\ pc = "legs"
    /\ legs.handler = "open"
    /\ legs.decided
    /\ Cardinality(legs.read) >= 2

\* C16: the main loop never stops on an exception.  A symbol whose
\* evaluation, open or close raised is followed by the next symbol or
\* candidate of the cycle, and a cycle that raised goes to the pause and
\* from there to the start of the next cycle.
C16_LoopSurvivesExceptions ==
    [][/\ pc' # "stopped"
       /\ (pc = "collect" /\ last_eval'.kind = "raised"
              /\ sym_idx < Len(config.symbols))
          => pc' = "collect" /\ sym_idx' = sym_idx + 1
       /\ (pc = "open" /\ last_call'.raised /\ sym_idx < Len(open_candidates))
          => pc' = "open" /\ sym_idx' = sym_idx + 1
       /\ (pc = "close" /\ last_call'.raised /\ sym_idx < Len(close_candidates))
          => pc' = "close" /\ sym_idx' = sym_idx + 1
       /\ pc' = "pause" => pc = "start"
       /\ pc = "pause" => pc' = "start"]_vars

\* the evaluation of the first symbol raised and the scan is at the second
C16_Witness ==
    /\ pc = "collect"
    /\ sym_idx = 2
    /\ last_eval.kind = "raised"
    /\ last_eval.symbol = config.symbols[1]

\* C21: a step of the candidate scan leaves the price, funding-rate and
\* timestamp fields of every symbol's venue records as they were
C21_ScanLeavesMarketData ==
    [][pc = "collect"
         => \A s \in DOMAIN latest_data : \A v \in Venues :
               latest_data'[s][v] = latest_data[s][v]]_vars

\* C22: with check_direction_consistency enabled, a scan step that
\* produces an Open candidate has evaluated the direction check for the
\* symbol and leaves preferred sides that hold a BUY and a SELL
C22_OpenOnlyAfterDirectionCheck ==
    [][(/\ pc = "collect"
        /\ config.open_conditions.check_direction_consistency
        /\ last_eval'.open)
         => /\ last_eval'.direction_checked
            /\ last_eval'.symbol \in DOMAIN preferred_sides'
            /\ LET p == preferred_sides'[last_eval'.symbol]
               IN  {"BUY", "SELL"} \subseteq {p.bp_side, p.hl_side, p.cx_side}]_vars

\* C23: while the cycle's position reports hold at least
\* max_positions_count distinct symbols, the cycle's list of open
\* candidates is empty
C23_NoOpenAtCap ==
    Cardinality(PositionSymbols(cycle_positions)) >= config.max_positions_count
    => Len(open_candidates) = 0

\* the cap is reached, the scanned symbol is not held and its market data
\* would open it, and no candidate was produced
C23_Witness ==
    /\ Cardinality(PositionSymbols(cycle_positions)) >= config.max_positions_count
    /\ last_eval.ready
    /\ last_eval.held = {}
    /\ last_eval.would_open
    /\ ~last_eval.open
    /\ Len(open_candidates) = 0

\* the symbols of a candidate list
CandidateSymbols(list) == {list[i].symbol : i \in 1..Len(list)}

\* C24: in a cycle no symbol is listed twice, in the open list, in the
\* close list or across the two; a handler call is for a symbol other than
\* the one of the cycle's previous call; and a call submits at most one
\* order per venue
C24_OneAttemptPerSymbol ==
    [][/\ Cardinality(CandidateSymbols(open_candidates')) = Len(open_candidates')
       /\ Cardinality(CandidateSymbols(close_candidates')) = Len(close_candidates')
       /\ CandidateSymbols(open_candidates') \cap CandidateSymbols(close_candidates') = {}
       /\ pc \in {"open", "close"}
          => /\ last_call.op # "none" => last_call'.symbol # last_call.symbol
             /\ \A o1 \in last_call'.submitted : \A o2 \in last_call'.submitted :
                   o1.venue = o2.venue => o1 = o2]_vars

\* an open left one leg filled and the other not, and the batches went on
\* to the other symbol
C24_Witness ==
    /\ last_call.op = "close"
    /\ \E s \in CandidateSymbols(open_candidates) :
         /\ s # last_call.symbol
         /\ venue_qty["backpack"][s] # 0
         /\ venue_qty["hyperliquid"][s] = 0

\* the signs a readable sign file holds, read off its text
SignsOnFile == [s \in DOMAIN Val(signs_file).doc |-> CASE Val(signs_file).doc[s] = "1" -> 1 [] Val(signs_file).doc[s] = "-1" -> -1 [] Val(signs_file).doc[s] = "0" -> 0]

C26_OpenOnlyUnderPolicy ==
    [][(pc = "collect" /\ last_eval'.open)
          => LET d == latest_data'[last_eval'.symbol]
                 bp == Val(d["backpack"].price)
                 hl == Val(d["hyperliquid"].price)
                 gap == IF bp >= hl THEN bp - hl ELSE hl - bp
                 diff == Val(d["backpack"].funding_rate)
                            - 8 * Val(d["hyperliquid"].funding_rate)
                 oc == config.open_conditions
                 priceCondition ==
                    /\ oc.min_price_diff_percent * hl <= gap * 10000
                    /\ gap * 10000 <= oc.max_price_diff_percent * hl
                 fundingCondition ==
                    (IF diff >= 0 THEN diff ELSE -diff) >= oc.min_funding_diff
             IN  CASE oc.condition_type = "any" -> priceCondition \/ fundingCondition
                   [] oc.condition_type = "all" -> priceCondition /\ fundingCondition
                   [] oc.condition_type = "funding_only" -> fundingCondition
                   [] oc.condition_type = "price_only" -> priceCondition
                   [] OTHER -> FALSE]_vars

\* a candidate of the price_only policy whose funding difference is below
\* the minimum
C26_Witness ==
    /\ last_eval.open
    /\ config.open_conditions.condition_type = "price_only"
    /\ config.open_conditions.min_funding_diff = 20
    /\ Len(open_candidates) = 1

C28_FilledIffPositionMoved ==
    [][(pc = "open" /\ ~last_call'.returned_early /\ ~last_call'.raised)
          => \A v \in RequiredLegs(last_call') :
                LET pre == venue_qty[v][last_call'.symbol]
                    post == venue_qty'[v][last_call'.symbol]
                IN  (v \in last_call'.changed)
                       <=> \/ pre = 0 /\ post # 0
                           \/ /\ pre # 0 /\ post # 0
                              /\ Abs(Abs(post) - Abs(pre)) * 10
                                    >= 8 * last_call'.size]_vars

\* C29: a close places an order on exactly the legs whose venue holds the
\* symbol (a flat leg is skipped), and it succeeds exactly when at least one
\* order was placed and every ordered leg is afterwards absent or shrunk by
\* at least 90 % of its size before the orders.
C29_CloseJudgedByPositions ==
    [][pc = "close"
          => LET s == last_call'.symbol
                 held == {v \in Venues : venue_qty[v][s] # 0}
                 ordered == {o.venue : o \in last_call'.submitted}
                 gone == {v \in ordered :
                            \/ venue_qty'[v][s] = 0
                            \/ (Abs(venue_qty[v][s]) - Abs(venue_qty'[v][s])) * 10
                                  >= 9 * Abs(venue_qty[v][s])}
             IN  /\ ordered = held
                 /\ (last_call'.outcome = "all_closed")
                       <=> (ordered # {} /\ gone = ordered)]_vars

\* the side the direction record holds for a symbol on a venue
RecordedSide(dirs, s, v) ==
    IF s \notin DOMAIN dirs THEN NoSide
    ELSE IF v = "backpack" THEN dirs[s].bp_side
    ELSE IF v = "hyperliquid" THEN dirs[s].hl_side
    ELSE dirs[s].cx_side

\* C30: a close places, on every venue that holds the symbol and has a
\* recorded side, an order of the inverse side (SELL for BUY, BUY for
\* SELL), and places no order on a venue without a recorded side.
C30_CloseSideInverse ==
    [][pc = "close"
          => LET s == last_call'.symbol
                 Recorded(v) == RecordedSide(position_directions, s, v)
             IN  /\ \A v \in Venues :
                       (venue_qty[v][s] # 0 /\ Recorded(v) \in {"BUY", "SELL"})
                          => \E o \in last_call'.submitted :
                                /\ o.venue = v
                                /\ o.side = IF Recorded(v) = "BUY"
                                            THEN "SELL" ELSE "BUY"
                 /\ \A o \in last_call'.submitted :
                       Recorded(o.venue) \in {"BUY", "SELL"}]_vars

\* C31: an order call that raised is its own leg's failure.  The handler
\* call does not end in its except clause because of it; once the results
\* are read the leg is among the failed ones and the result of every other
\* created order has been read too; and the call returns only after the
\* positions were fetched and the decision was taken.
C31_LegExceptionIsLegFailure ==
    (pc = "legs" /\ legs.raised # {})
    => /\ legs.phase # "raised"
       /\ legs.phase \in {"fetch", "judge", "returned"}
            => /\ legs.raised \subseteq legs.failed
               /\ legs.read = {v \in Venues : legs.task[v] # "none"}
       /\ legs.phase = "returned" => legs.snapshot /\ legs.decided

\* an open has returned after Backpack's order call raised and
\* Hyperliquid's was answered
C31_Witness ==
    /\ pc = "legs"
    /\ legs.handler = "open"
    /\ legs.phase = "returned"
    /\ legs.raised = {"backpack"}
    /\ "hyperliquid" \in legs.read

\* C32: in every run of update_funding_rates the per-symbol funding call
\* is made, for each venue the engine has an adapter for, for exactly the
\* configured symbols the venue's bulk call did not return in that run.
C32_SingleCallsForUnreturned ==
    ~IsNone(call_result)
    => Val(call_result).calls =
          {c \in Venues \X ConfigSymbols(config) :
              available[c[1]] /\ c[2] \notin Val(call_result).bulk[c[1]]}

\* the call _analyze_orderbook is written for: a positive target and market
\* price, and a side whose levels all have a known shape, numbers in both
\* fields, and a positive price and size
WellFormedCall(a) ==
    /\ ~IsNone(a.orderbook)
    /\ a.side \in DOMAIN Val(a.orderbook)
    /\ Val(a.orderbook)[a.side] # <<>>
    /\ \A i \in 1..Len(Val(a.orderbook)[a.side]) :
          LET level == Val(a.orderbook)[a.side][i]
          IN  level.shape \in KnownShapes /\ level.numeric /\ level.price > 0 /\ level.size > 0
    /\ a.amount_usd > 0
    /\ a.price > 0

\* the levels a walk can reach: the best MaxLevelsChecked levels of the side
ReachableLevels(a) ==
    LET Best(sorted) == SubSeq(sorted, 1, IF Len(sorted) < MaxLevelsChecked THEN Len(sorted) ELSE MaxLevelsChecked)
    IN  Best(SortLevels(ConvertLevels(Val(a.orderbook)[a.side]), a.side))

RECURSIVE NotionalThrough(_, _)
NotionalThrough(levels, i) ==
    IF i = 0 THEN 0 ELSE levels[i][1] * levels[i][2] + NotionalThrough(levels, i - 1)

\* the notional a fill of amount_usd takes from level i
ConsumedNotional(levels, amount_usd, i) ==
    LET Take(before, value) == IF before >= amount_usd THEN 0 ELSE IF before + value >= amount_usd THEN amount_usd - before ELSE value
    IN  Take(NotionalThrough(levels, i - 1), levels[i][1] * levels[i][2])

RatAdd(a, b) == Ratio(a.num * b.den + b.num * a.den, a.den * b.den)

\* the size a fill of amount_usd takes from levels 1..i
RECURSIVE ConsumedSize(_, _, _)
ConsumedSize(levels, amount_usd, i) ==
    IF i = 0 THEN Ratio(0, 1)
    ELSE RatAdd(Ratio(ConsumedNotional(levels, amount_usd, i), levels[i][1]),
                ConsumedSize(levels, amount_usd, i - 1))

\* the notional a fill of amount_usd takes from the levels in all
FilledNotional(levels, amount_usd) ==
    LET Cap(total) == IF total < amount_usd THEN total ELSE amount_usd
    IN  Cap(NotionalThrough(levels, Len(levels)))

\* sum of price times size consumed over sum of size consumed
SizeWeightedAverage(levels, amount_usd) ==
    LET Over(n, size) == Ratio((n \div GCD(n, size.num)) * size.den, size.num \div GCD(n, size.num))
    IN  Over(FilledNotional(levels, amount_usd), ConsumedSize(levels, amount_usd, Len(levels)))

\* C33: when the best ten levels fill at least 80 % of the target, the
\* slippage returned is |mid - A| / mid in percent, clamped to [0.01, 0.5],
\* where A is the size-weighted average price of the levels consumed.
C33_SlippageFromWeightedAverage ==
    (/\ pc = "book"
     /\ ~IsNone(call_result)
     /\ WellFormedCall(Val(call_args))
     /\ FilledNotional(ReachableLevels(Val(call_args)), Val(call_args).amount_usd) * 100
          >= MinFillPercentage * Val(call_args).amount_usd)
    => RatEq(Val(call_result),
             ClampSlippage(SlippagePercent(Val(call_args).price,
                             SizeWeightedAverage(ReachableLevels(Val(call_args)),
                                                 Val(call_args).amount_usd))))

\* a call whose side yields at least one level after the conversion, for a
\* positive target
UsableBook(a) ==
    /\ ~IsNone(a.orderbook)
    /\ a.side \in DOMAIN Val(a.orderbook)
    /\ ~ConversionRaises(Val(a.orderbook)[a.side])
    /\ ConvertLevels(Val(a.orderbook)[a.side]) # <<>>
    /\ a.amount_usd > 0

\* C34: when the best ten levels fill less than 80 % of the target, the
\* value returned is the unfilled fraction of the target capped at 0.2; it
\* is never above 0.2 and does not depend on the prices walked or on the
\* market price.
C34_ShortfallBelowEightyPercent ==
    (/\ pc = "book"
     /\ ~IsNone(call_result)
     /\ UsableBook(Val(call_args))
     /\ FilledNotional(ReachableLevels(Val(call_args)), Val(call_args).amount_usd) * 100
          < MinFillPercentage * Val(call_args).amount_usd)
    => /\ RatLE(Val(call_result), ShortfallCap)
       /\ RatEq(Val(call_result),
                RatMin(ShortfallCap,
                       Ratio(Val(call_args).amount_usd
                               - FilledNotional(ReachableLevels(Val(call_args)), Val(call_args).amount_usd),
                             Val(call_args).amount_usd)))

\* a book eleven levels deep whose best ten fill 9990 of 13000
C34_Witness ==
    /\ pc = "book"
    /\ ~IsNone(call_result)
    /\ UsableBook(Val(call_args))
    /\ Len(Val(Val(call_args).orderbook)[Val(call_args).side]) > MaxLevelsChecked
    /\ Val(call_args).amount_usd = 13000
    /\ FilledNotional(ReachableLevels(Val(call_args)), 13000) = 9990
    /\ Val(call_result) = ShortfallCap

\* an input the analysis is not written for: no book, the side missing or
\* empty, no level of a known shape, a field float() refuses, a market
\* price of zero, a level priced zero, or levels that hold no size at all
MalformedCall(a) ==
    \/ IsNone(a.orderbook)
    \/ a.side \notin DOMAIN Val(a.orderbook)
    \/ Val(a.orderbook)[a.side] = <<>>
    \/ ConversionRaises(Val(a.orderbook)[a.side])
    \/ ConvertLevels(Val(a.orderbook)[a.side]) = <<>>
    \/ a.price = 0
    \/ \E i \in 1..Len(ConvertLevels(Val(a.orderbook)[a.side])) :
          ConvertLevels(Val(a.orderbook)[a.side])[i][1] = 0
    \/ \A i \in 1..Len(ConvertLevels(Val(a.orderbook)[a.side])) :
          ConvertLevels(Val(a.orderbook)[a.side])[i][2] = 0

\* C35: for a malformed input (no book, a missing or empty side, levels of
\* no known shape, a zero price, zero depth) the value returned is the
\* default 0.1.
C35_DefaultOnMalformedInput ==
    (pc = "book" /\ ~IsNone(call_result) /\ MalformedCall(Val(call_args)))
    => Val(call_result) = DefaultSlippage

\* the symbols the engine opened in this process and the account still holds
OpenedAndHeld ==
    {s \in DOMAIN position_open_times : \E v \in Venues : venue_qty[v][s] # 0}

VenuesWithSide(m, side) ==
    Cardinality({v \in Venues : side = (IF v = "backpack" THEN m.bp_side
                                        ELSE IF v = "hyperliquid" THEN m.hl_side
                                        ELSE m.cx_side)})

\* C37: for any three rates, ties included, check_direction_consistency_multi
\* gives BUY to exactly one venue, SELL to exactly one other and NONE to the
\* third, and reports the direction as consistent.
C37_OneBuyOneSellOneNone ==
    (pc = "rank" /\ ~IsNone(call_result))
    => /\ VenuesWithSide(Val(call_result).multi, "BUY") = 1
       /\ VenuesWithSide(Val(call_result).multi, "SELL") = 1
       /\ VenuesWithSide(Val(call_result).multi, "NONE") = 1
       /\ Val(call_result).multi.is_consistent

\* three equal rates: Backpack buys, CoinEx sells, Hyperliquid stays out
C37_Witness ==
    /\ pc = "rank"
    /\ ~IsNone(call_result)
    /\ Val(call_args).bp_funding = Val(call_args).hl_funding
    /\ Val(call_args).hl_funding = Val(call_args).cx_funding
    /\ Val(call_result).multi.bp_side = "BUY"
    /\ Val(call_result).multi.hl_side = "NONE"
    /\ Val(call_result).multi.cx_side = "SELL"

\* the funding fields of a slot differ between two stores
FundingWritten(old, new, s, v) ==
    \/ new[s][v].funding_rate # old[s][v].funding_rate
    \/ new[s][v].funding_timestamp # old[s][v].funding_timestamp

\* C38: the refresh task and the main loop alternate at await points only;
\* a step that writes the funding rate of a venue slot also writes the
\* slot's funding timestamp, with the time of that step, so a rate is
\* never seen beside the timestamp of an older refresh; and a step that
\* writes funding data leaves the sign map and the entry records alone.
C38_RateWrittenWithTimestamp ==
    [][\A s \in DOMAIN latest_data, v \in Venues :
          FundingWritten(latest_data, latest_data', s, v)
          => /\ ~IsNone(latest_data'[s][v].funding_rate)
             /\ latest_data'[s][v].funding_timestamp = Some(now)
             /\ UNCHANGED <<funding_diff_signs, signs_file, position_directions,
                            position_open_times, entry_prices,
                            entry_funding_rates, preferred_sides>>]_vars

\* a refresh landed between the scan and the opens of a cycle: the rate the
\* candidate was listed with is no longer the stored one
C38_Witness ==
    /\ pc = "open"
    /\ Len(open_candidates) > 0
    /\ open_candidates[1].symbol = "BTC"
    /\ latest_data["BTC"]["backpack"].funding_rate # Some(open_candidates[1].bp_funding)
    /\ latest_data["BTC"]["backpack"].funding_timestamp = Some(now)
    /\ latest_data["BTC"]["hyperliquid"].funding_timestamp # Some(now)

\* C39: the minimum-hold gate refuses a close only on an open time that a
\* successful open recorded in the running process; a scan of a held
\* symbol without a recorded open time is never refused for its holding
\* time, whether the position was found at startup or opened before a
\* restart.
C39_GateNeedsRecordedOpenTime ==
    [][(/\ pc = "collect"
        /\ last_eval'.close_checked
        /\ last_eval'.symbol \notin DOMAIN position_open_times)
         => last_eval'.kind # "too_early"]_vars

\* a position found at startup, scanned in the first cycle before any
\* handler was called: no open time is recorded, the gate lets the scan go
\* on, and the symbol is listed for closing
C39_Witness ==
    /\ now = 1
    /\ last_call = NoCall
    /\ last_eval.held # {}
    /\ last_eval.close_checked
    /\ last_eval.symbol \notin DOMAIN position_open_times
    /\ last_eval.close
    /\ Len(close_candidates) > 0

=============================================================================
